---- MODULE Spec2Model ----
(***************************************************************************)
(* Model of the dinner-suggestion bot (LINE / Slack, AWS Bedrock).         *)
(*                                                                         *)
(*   Spec / FairSpec : the Slack slash-command workflow, in its two        *)
(*                     deployments: SlackBotHandler (app/slack_bot.py,     *)
(*                     phase 2 in a joined thread) and the instant         *)
(*                     responder + async processor Lambda pair.            *)
(*                                                                         *)
(*   SpecParser      : recipe_parser.parse_recipe_text and the core        *)
(*                     service's _parse_recipe_response applied to texts.  *)
(*   SpecClassify    : the mood / ingredient classifier applied to inputs. *)
(*   SpecService     : core RecipeService.generate_recipe_suggestions and  *)
(*                     app RecipeService.generate_recipe over every        *)
(*                     behaviour of the completion gateway.                *)
(*   SpecRender      : how each delivery path shows a service result.      *)
(*   SpecInvoke      : the invoke_model calls one request makes.           *)
(*   SpecEntry       : handler.lambda_handler over API Gateway events.     *)
(*   SpecLine        : one LINE text message and its reply_message calls.  *)
(*   SpecSlackEvent  : one Slack Events API request in each of the three   *)
(*                     event handlers.                                     *)
(*   SpecStorage     : two concurrent IngredientStorage.add_ingredients    *)
(*                     calls on the ingredient table.                      *)
(*                                                                         *)
(* Texts are sequences of one-character strings.  In the parsers' alphabet *)
(* "FWDOT" is U+FF0E, "FWDASH" is U+FF0D and "NAKATEN" is U+30FB; in the   *)
(* classifier's word lists a character is the token "uXXXX" of its code    *)
(* point.                                                                  *)
(***************************************************************************)
EXTENDS Integers, Sequences, FiniteSets, TLC

VARIABLES
    impl,           \* deployment: "thread" (slack_bot.py) or "lambda" (instant responder + async processor)
    cmd,            \* shape of the slash command's text field
    response_url,   \* the form's response_url field: "" or "url"
    stored,         \* TRUE iff the user's stored ingredient list is non-empty
    p1pc,           \* position of phase 1 (the synchronous handler)
    response,       \* body phase 1 returned to Slack ("none" until it returns)
    p2pc,           \* position of phase 2 (thread / async processor)
    result,         \* phase 2: what generate_recipe returned
    payload,        \* phase 2: the follow-up payload that was built
    posts,          \* sequence of callback POSTs attempted on response_url
    gatewayCalls,   \* number of invocations of the completion service
    p1GatewayCalls, \* gateway invocations phase 1 has waited for before returning
    response_text,  \* SpecParser: the completion text handed to a parser
    entries,        \* SpecParser: the entries response_text was written from (<<>> if free text)
    parser,         \* SpecParser: "ready", then the parser that was applied
    recipes,        \* SpecParser: the list that parser returned
    user_input,     \* SpecClassify / SpecService: the user's text
    verdict,        \* SpecClassify: "ready", then "mood" or "ingredient"
    svcpc,          \* SpecService: "ready", then "returned"
    prompt,         \* SpecService: the prompt sent to the gateway
    completion,     \* SpecService: what the completion service did
    completion_result, \* SpecService: the dict generate_completion returned
    envelope,       \* SpecService: the dict the service returned
    channel,        \* SpecRender: the delivery path the request came in on
    request,        \* SpecRender: the user's text
    backend,        \* SpecRender: what the completion service did
    shown,          \* SpecRender: what the path shows the user
    invoker,        \* SpecInvoke: the code that calls the completion service
    ipc,            \* SpecInvoke: its position
    model_index,    \* SpecInvoke: index in model_ids of the model being tried
    invocations,    \* SpecInvoke: what each invoke_model call of this request did
    invoke_result,  \* SpecInvoke: the dict returned to the caller
    _line_handler,  \* SpecEntry: handler.py global, None until LineBotHandler() succeeds
    _slack_handler, \* SpecEntry: handler.py global, None until SlackBotHandler() succeeds
    lambda_event,   \* SpecEntry: the event of the last invocation
    lambda_env,     \* SpecEntry: what construction and the channel handler did in it
    lambda_response, \* SpecEntry: what the invocation gave back to the runtime
    webhook_args,   \* SpecEntry: the arguments of its handle_webhook call, None without one
    line_impl,      \* SpecLine: which LINE adapter handles the message
    line_event,     \* SpecLine: the MessageEvent (reply token, message)
    lpc,            \* SpecLine: position in _handle_text_message
    replies,        \* SpecLine: the reply_message calls made, in order
    ev_impl,        \* SpecSlackEvent: which Slack event handler runs
    ev_body,        \* SpecSlackEvent: the request body
    ev_signed,      \* SpecSlackEvent: whether the request carries a valid signature
    ev_response,    \* SpecSlackEvent: the handler's return value
    ev_generated,   \* SpecSlackEvent: the texts recipe generation was called with
    ev_dispatched,  \* SpecSlackEvent: the payloads sent to the recipe processor
    table0,         \* SpecStorage: the ingredient table before the calls
    table,          \* SpecStorage: the ingredient table, user_id -> list
    calls,          \* SpecStorage: the add_ingredients call of each caller
    spc,            \* SpecStorage: each caller's position in add_ingredients
    current,        \* SpecStorage: each caller's current_ingredients
    returned,       \* SpecStorage: each caller's return value
    oplog           \* SpecStorage: the table operations, in order

slackVars == <<impl, cmd, response_url, stored, p1pc, response, p2pc, result,
               payload, posts, gatewayCalls, p1GatewayCalls>>

parserVars == <<response_text, entries, parser, recipes>>

classifyVars == <<user_input, verdict>>

serviceVars == <<svcpc, prompt, completion, completion_result, envelope>>

pipelineVars == <<slackVars, parserVars, classifyVars, serviceVars>>

renderVars == <<channel, request, backend, shown>>

invokeVars == <<invoker, ipc, model_index, invocations, invoke_result>>

entryVars == <<_line_handler, _slack_handler, lambda_event, lambda_env, lambda_response,
               webhook_args>>

lineVars == <<line_impl, line_event, lpc, replies>>

eventVars == <<ev_impl, ev_body, ev_signed, ev_response, ev_generated, ev_dispatched>>

storeVars == <<table0, table, calls, spc, current, returned, oplog>>

\* the components around the pipeline: rendering, entry point, adapters, storage
edgeVars == <<renderVars, invokeVars, entryVars, lineVars, eventVars, storeVars>>

\* what the actions of SpecRender leave alone
renderRest == <<pipelineVars, invokeVars, entryVars, lineVars, eventVars, storeVars>>

\* what the actions of SpecInvoke leave alone
invokeRest == <<pipelineVars, renderVars, entryVars, lineVars, eventVars, storeVars>>

\* what the actions of SpecEntry leave alone
entryRest == <<pipelineVars, renderVars, invokeVars, lineVars, eventVars, storeVars>>

\* what the actions of SpecLine leave alone
lineRest == <<pipelineVars, renderVars, invokeVars, entryVars, eventVars, storeVars>>

\* what the actions of SpecSlackEvent leave alone
eventRest == <<pipelineVars, renderVars, invokeVars, entryVars, lineVars, storeVars>>

\* what the actions of SpecStorage leave alone
storeRest == <<pipelineVars, renderVars, invokeVars, entryVars, lineVars, eventVars>>

vars == <<slackVars, parserVars, classifyVars, serviceVars, edgeVars>>

----------------------------------------------------------------------------
(* Text helpers *)

NL == "\n"

\* \d : the decimal digits of the modelled alphabet
Digits == {"1", "2"}

\* \s, and what str.strip() removes
WhiteSpace == {" ", NL}

Max(S) == CHOOSE x \in S : \A y \in S : y <= x

Min(S) == CHOOSE x \in S : \A y \in S : x <= y

\* first position >= i of t that holds a character outside S; Len(t)+1 if none
SkipWhile(t, i, S) == Min({j \in i..(Len(t) + 1) : j = Len(t) + 1 \/ t[j] \notin S})

\* position of the first line break at or after i; Len(t)+1 if none
LineEnd(t, i) == Min({j \in i..(Len(t) + 1) : j = Len(t) + 1 \/ t[j] = NL})

\* str.strip()
Strip(s) ==
    LET inked == {i \in 1..Len(s) : s[i] \notin WhiteSpace}
    IN  IF inked = {} THEN <<>> ELSE SubSeq(s, Min(inked), Max(inked))

\* str.split('\n')
RECURSIVE SplitLines(_)
SplitLines(t) ==
    LET e == LineEnd(t, 1)
    IN  IF e > Len(t) THEN <<t>>
        ELSE <<SubSeq(t, 1, e - 1)>> \o SplitLines(SubSeq(t, e + 1, Len(t)))

\* `w in t` for strings
Contains(t, w) ==
    \E i \in 1..(Len(t) - Len(w) + 1) : SubSeq(t, i, i + Len(w) - 1) = w

NoMatch == [ok |-> FALSE]

----------------------------------------------------------------------------
(* recipe_parser.parse_recipe_text *)

OrdinalDots == {".", "FWDOT"}

DescriptionMarks == {"-", "FWDASH"}

BulletMarks == {"-", "FWDASH", "NAKATEN"}

\* '提案されたメニュー', the fixed label of the synthetic entry
PlaceholderName == <<"PLACEHOLDER">>

Ellipsis == <<".", ".", ".">>

\* recipe_text[:100]
MaxDescriptionLen == 100

\* `\n\s*[-－]\s*([^\n]+)` with the line break at m.  \s* is greedy and gives
\* characters back only when [^\n]+ finds nothing to take.
PatternTail(t, m) ==
    LET n == Len(t)
        q == SkipWhile(t, m + 1, WhiteSpace)
    IN  IF q > n \/ t[q] \notin DescriptionMarks THEN NoMatch
        ELSE LET r == SkipWhile(t, q + 1, WhiteSpace)
                 U == {u \in (q + 1)..r : u <= n /\ t[u] # NL}
             IN  IF U = {} THEN NoMatch
                 ELSE [ok |-> TRUE, dstart |-> Max(U), end |-> LineEnd(t, Max(U))]

\* PatternMatchAt with the ordinal's dot written `\.` instead of `[\.．]`
PatternMatchAt_AsciiDotOnly(t, i) ==
    LET n == Len(t)
    IN  IF i > n \/ t[i] \notin Digits THEN NoMatch
        ELSE LET j == SkipWhile(t, i, Digits)
             IN  IF j > n \/ t[j] # "." THEN NoMatch
                 ELSE LET k == SkipWhile(t, j + 1, WhiteSpace)
                          S == {s \in (j + 1)..k :
                                   /\ s <= n
                                   /\ t[s] # NL
                                   /\ LineEnd(t, s) <= n
                                   /\ PatternTail(t, LineEnd(t, s)).ok}
                      IN  IF S = {} THEN NoMatch
                          ELSE LET s == Max(S)
                                   m == LineEnd(t, s)
                                   tail == PatternTail(t, m)
                               IN  [ok |-> TRUE,
                                    end |-> tail.end,
                                    name |-> SubSeq(t, s, m - 1),
                                    description |-> SubSeq(t, tail.dstart, tail.end - 1)]

\* (\d+)[\.．]\s*([^\n]+)\n\s*[-－]\s*([^\n]+) tried at position i;
\* `end` is the position after the match
PatternMatchAt(t, i) ==
    LET n == Len(t)
    IN  IF i > n \/ t[i] \notin Digits THEN NoMatch
        ELSE LET j == SkipWhile(t, i, Digits)
             IN  IF j > n \/ t[j] \notin OrdinalDots THEN NoMatch
                 ELSE LET k == SkipWhile(t, j + 1, WhiteSpace)
                          S == {s \in (j + 1)..k :
                                   /\ s <= n
                                   /\ t[s] # NL
                                   /\ LineEnd(t, s) <= n
                                   /\ PatternTail(t, LineEnd(t, s)).ok}
                      IN  IF S = {} THEN NoMatch
                          ELSE LET s == Max(S)
                                   m == LineEnd(t, s)
                                   tail == PatternTail(t, m)
                               IN  [ok |-> TRUE,
                                    end |-> tail.end,
                                    name |-> SubSeq(t, s, m - 1),
                                    description |-> SubSeq(t, tail.dstart, tail.end - 1)]

\* re.findall(pattern, recipe_text, re.MULTILINE), scanning from position pos
RECURSIVE PatternFindAll(_, _)
PatternFindAll(t, pos) ==
    LET starts == {i \in pos..Len(t) : PatternMatchAt(t, i).ok}
    IN  IF starts = {} THEN <<>>
        ELSE LET m == PatternMatchAt(t, Min(starts))
             IN  <<[name |-> Strip(m.name), description |-> Strip(m.description)]>>
                   \o PatternFindAll(t, m.end)

\* re.match(r'^\d+[\.．]', line)
StartsWithOrdinal(line, dots) ==
    /\ Len(line) >= 1
    /\ line[1] \in Digits
    /\ SkipWhile(line, 1, Digits) <= Len(line)
    /\ line[SkipWhile(line, 1, Digits)] \in dots

\* re.sub(r'^\d+[\.．]\s*', '', line) on a line that starts with an ordinal
StripOrdinal(line) ==
    SubSeq(line, SkipWhile(line, SkipWhile(line, 1, Digits) + 1, WhiteSpace), Len(line))

\* re.sub(r'^[-－・]\s*', '', line) on a line that starts with a bullet mark
StripBullet(line) == SubSeq(line, SkipWhile(line, 2, WhiteSpace), Len(line))

\* the line scan of lines 36-53; cur is <<>> for None, else <<current_recipe>>
RECURSIVE LineScan(_, _, _, _)
LineScan(lines, idx, found, cur) ==
    IF idx > Len(lines) THEN found \o cur
    ELSE LET line == Strip(lines[idx])
         IN  IF line = <<>> THEN LineScan(lines, idx + 1, found, cur)
             ELSE IF StartsWithOrdinal(line, OrdinalDots)
               THEN LineScan(lines, idx + 1, found \o cur,
                             <<[name |-> StripOrdinal(line), description |-> <<>>]>>)
             ELSE IF line[1] \in BulletMarks /\ cur # <<>>
               THEN LineScan(lines, idx + 1, found,
                             <<[name |-> cur[1].name, description |-> StripBullet(line)]>>)
             ELSE LineScan(lines, idx + 1, found, cur)

\* Fallback with the length test written `>=` instead of `>`
Fallback_OffByOne(t) ==
    <<[name |-> PlaceholderName,
       description |-> IF Len(t) >= MaxDescriptionLen
                         THEN SubSeq(t, 1, MaxDescriptionLen) \o Ellipsis
                         ELSE t]>>

\* lines 55-60: one synthetic entry
Fallback(t) ==
    <<[name |-> PlaceholderName,
       description |-> IF Len(t) > MaxDescriptionLen
                         THEN SubSeq(t, 1, MaxDescriptionLen) \o Ellipsis
                         ELSE t]>>

Tier1(t) == PatternFindAll(t, 1)

Tier2(t) == LineScan(SplitLines(Strip(t)), 1, <<>>, <<>>)

\* parse_recipe_text without the final `if not recipes` block
\* the line scan runs after the pattern whatever the pattern found
parse_recipe_text_TiersMixed(t) ==
    IF Tier1(t) \o Tier2(t) # <<>> THEN Tier1(t) \o Tier2(t) ELSE Fallback(t)

parse_recipe_text_NoFallback(t) ==
    IF Tier1(t) # <<>> THEN Tier1(t) ELSE Tier2(t)

parse_recipe_text(t) ==
    IF Tier1(t) # <<>> THEN Tier1(t)
    ELSE IF Tier2(t) # <<>> THEN Tier2(t)
    ELSE Fallback(t)

----------------------------------------------------------------------------
(* core.recipe_service.RecipeService._parse_recipe_response *)

\* (?=\n\d+\.|$) at position e; without re.MULTILINE `$` holds at the end of
\* the text and before a final line break
CoreLookahead(t, e) ==
    LET n == Len(t)
    IN  \/ e = n + 1
        \/ e = n /\ t[e] = NL
        \/ /\ e + 1 <= n
           /\ t[e] = NL
           /\ t[e + 1] \in Digits
           /\ SkipWhile(t, e + 1, Digits) <= n
           /\ t[SkipWhile(t, e + 1, Digits)] = "."

\* `\n\s*-\s*(.+?)(?=\n\d+\.|$)` with the line break at m (re.DOTALL: `.`
\* takes line breaks too, and the lazy group stops at the first lookahead hit)
CoreTail(t, m) ==
    LET n == Len(t)
        q == SkipWhile(t, m + 1, WhiteSpace)
    IN  IF q > n \/ t[q] # "-" THEN NoMatch
        ELSE LET r == SkipWhile(t, q + 1, WhiteSpace)
                 U == {u \in (q + 1)..r : u <= n}
             IN  IF U = {} THEN NoMatch
                 ELSE [ok |-> TRUE,
                       dstart |-> Max(U),
                       end |-> Min({e \in (Max(U) + 1)..(n + 1) : CoreLookahead(t, e)})]

\* (\d+)\.\s*(.+?)\n\s*-\s*(.+?)(?=\n\d+\.|$) tried at position i
CoreMatchAt(t, i) ==
    LET n == Len(t)
    IN  IF i > n \/ t[i] \notin Digits THEN NoMatch
        ELSE LET j == SkipWhile(t, i, Digits)
             IN  IF j > n \/ t[j] # "." THEN NoMatch
                 ELSE LET k == SkipWhile(t, j + 1, WhiteSpace)
                          Breaks(s) == {m \in (s + 1)..n : t[m] = NL /\ CoreTail(t, m).ok}
                          S == {s \in (j + 1)..k : s <= n /\ Breaks(s) # {}}
                      IN  IF S = {} THEN NoMatch
                          ELSE LET s == Max(S)
                                   m == Min(Breaks(s))
                                   tail == CoreTail(t, m)
                               IN  [ok |-> TRUE,
                                    end |-> tail.end,
                                    number |-> SubSeq(t, i, j - 1),
                                    name |-> SubSeq(t, s, m - 1),
                                    description |-> SubSeq(t, tail.dstart, tail.end - 1)]

\* re.findall(pattern, response_text, re.DOTALL), scanning from position pos
RECURSIVE CoreFindAll(_, _)
CoreFindAll(t, pos) ==
    LET starts == {i \in pos..Len(t) : CoreMatchAt(t, i).ok}
    IN  IF starts = {} THEN <<>>
        ELSE LET m == CoreMatchAt(t, Min(starts))
             IN  <<[number |-> Strip(m.number),
                    name |-> Strip(m.name),
                    description |-> Strip(m.description)]>>
                   \o CoreFindAll(t, m.end)

\* the fallback loop of lines 199-216; cur is <<>> for None
RECURSIVE CoreLineScan(_, _, _, _)
CoreLineScan(lines, idx, found, cur) ==
    IF idx > Len(lines) THEN found \o cur
    ELSE LET line == Strip(lines[idx])
         IN  IF StartsWithOrdinal(line, {"."})
               THEN CoreLineScan(lines, idx + 1, found \o cur,
                                 <<[number |-> SubSeq(line, 1, SkipWhile(line, 1, Digits) - 1),
                                    name |-> StripOrdinal(line),
                                    description |-> <<>>]>>)
             ELSE IF Len(line) >= 1 /\ line[1] = "-" /\ cur # <<>>
               THEN CoreLineScan(lines, idx + 1, found,
                                 <<[number |-> cur[1].number,
                                    name |-> cur[1].name,
                                    description |-> Strip(SubSeq(line, 2, Len(line)))]>>)
             ELSE CoreLineScan(lines, idx + 1, found, cur)

_parse_recipe_response(t) ==
    IF CoreFindAll(t, 1) # <<>> THEN CoreFindAll(t, 1)
    ELSE CoreLineScan(SplitLines(t), 1, <<>>, <<>>)

----------------------------------------------------------------------------
(* recipe_service.RecipeService._parse_recipes (app/recipe_service.py, the  *)
(* service behind line_bot.py, slack_bot.py and the async processor)       *)

\* '追加'
AdditionalMark == <<"u8FFD", "u52A0">>

\* '追加で必要'
AdditionalShort == <<"u8FFD", "u52A0", "u3067", "u5FC5", "u8981">>

\* '追加で必要な材料:'
AdditionalLabel ==
    <<"u8FFD", "u52A0", "u3067", "u5FC5", "u8981", "u306A", "u6750", "u6599", ":">>

\* "\n🛒 追加で必要: "
CartPrefix == <<NL, "u1F6D2", " ">> \o AdditionalShort \o <<":", " ">>

Brackets == {"[", "]"}

\* t[i:].startswith(w)
StartsWithAt(t, i, w) ==
    i + Len(w) - 1 <= Len(t) /\ SubSeq(t, i, i + Len(w) - 1) = w

\* str.strip('[]')
StripBrackets(s) ==
    LET kept == {i \in 1..Len(s) : s[i] \notin Brackets}
    IN  IF kept = {} THEN <<>> ELSE SubSeq(s, Min(kept), Max(kept))

\* the body of (?!\s*-\s*追加|\d+\.) at position x
EnhancedStop(t, x) ==
    LET n == Len(t)
        a == SkipWhile(t, x, WhiteSpace)
        d == SkipWhile(t, x, Digits)
    IN  \/ /\ a <= n
           /\ t[a] = "-"
           /\ StartsWithAt(t, SkipWhile(t, a + 1, WhiteSpace), AdditionalMark)
        \/ /\ x <= n
           /\ t[x] \in Digits
           /\ d <= n
           /\ t[d] = "."

\* The enhanced pattern of line 196 tried at position i:
\*   (\d+)\.\s*\[([^\]]+)\]\s*\n\s*-\s*([^\n]+(?:\n(?!\s*-\s*追加|\d+\.)[^\n]*)*)\s*
\*   (?:\n\s*-\s*追加で必要な材料:\s*([^\n]+(?:\n(?!\d+\.)[^\n]*)*?))?
\* The description takes every following line up to one that starts an
\* additional-ingredients bullet or an ordinal.  The greedy \s* after it
\* takes that line break, so the optional last group, which must start at a
\* line break, never takes part in a match: its capture is always ''.
EnhancedMatchAt(t, i) ==
    LET n == Len(t)
    IN  IF i > n \/ t[i] \notin Digits THEN NoMatch
        ELSE LET j == SkipWhile(t, i, Digits)
             IN  IF j > n \/ t[j] # "." THEN NoMatch
                 ELSE LET k == SkipWhile(t, j + 1, WhiteSpace)
                      IN  IF k > n \/ t[k] # "[" THEN NoMatch
                          ELSE LET b == Min({x \in (k + 1)..(n + 1) : x = n + 1 \/ t[x] = "]"})
                                   p == SkipWhile(t, b + 1, WhiteSpace)
                               IN  IF \/ b > n
                                      \/ b < k + 2
                                      \/ p > n
                                      \/ t[p] # "-"
                                      \/ ~ \E m \in (b + 1)..(p - 1) : t[m] = NL
                                     THEN NoMatch
                                   ELSE LET r == SkipWhile(t, p + 1, WhiteSpace)
                                            U == {u \in (p + 1)..r : u <= n /\ t[u] # NL}
                                        IN  IF U = {} THEN NoMatch
                                            ELSE LET u == Max(U)
                                                     e == Min({x \in u..(n + 1) :
                                                                 \/ x = n + 1
                                                                 \/ t[x] = NL /\ EnhancedStop(t, x + 1)})
                                                 IN  [ok |-> TRUE,
                                                      end |-> SkipWhile(t, e, WhiteSpace),
                                                      number |-> SubSeq(t, i, j - 1),
                                                      name |-> SubSeq(t, k + 1, b - 1),
                                                      description |-> SubSeq(t, u, e - 1),
                                                      additional_ingredients |-> <<>>]

\* re.findall(recipe_pattern, response_text, ...) and the loop of lines 199-213
RECURSIVE EnhancedFindAll(_, _)
EnhancedFindAll(t, pos) ==
    LET starts == {i \in pos..Len(t) : EnhancedMatchAt(t, i).ok}
    IN  IF starts = {} THEN <<>>
        ELSE LET m == EnhancedMatchAt(t, Min(starts))
                 additional == Strip(m.additional_ingredients)
                 \* '（もしあれば）' and 'なし' are not texts of the modelled alphabet
                 suffix == IF additional # <<>> THEN CartPrefix \o additional ELSE <<>>
             IN  <<[number |-> Strip(m.number),
                    name |-> Strip(m.name),
                    description |-> Strip(m.description) \o suffix]>>
                   \o EnhancedFindAll(t, m.end)

\* re.sub(r'^\d+\.\s*[\[\]]*', '', line).strip('[]') on a line that starts with an ordinal
BareName(line) ==
    LET a == SkipWhile(line, SkipWhile(line, 1, Digits) + 1, WhiteSpace)
    IN  StripBrackets(SubSeq(line, SkipWhile(line, a, Brackets), Len(line)))

\* re.sub(r'^\s*-\s*追加で必要な材料:\s*', '', line) on a line that starts with '-'
StripAdditionalLabel(line) ==
    LET c == SkipWhile(line, 2, WhiteSpace)
    IN  IF StartsWithAt(line, c, AdditionalLabel)
          THEN SubSeq(line, SkipWhile(line, c + Len(AdditionalLabel), WhiteSpace), Len(line))
          ELSE line

\* lines 259-265: the last recipe gets its additional ingredients merged and
\* the temporary key removed; the recipes appended inside the loop keep it
CloseLast(cur) ==
    IF cur = <<>> THEN <<>>
    ELSE <<[number |-> cur[1].number,
            name |-> cur[1].name,
            description |-> IF cur[1].additional_ingredients # <<>>
                              THEN cur[1].description \o CartPrefix \o cur[1].additional_ingredients
                              ELSE cur[1].description]>>

\* the "ultimate fallback" loop of lines 230-257; cur is <<>> for None
RECURSIVE LegacyLineScan(_, _, _, _)
LegacyLineScan(lines, idx, found, cur) ==
    IF idx > Len(lines) THEN found \o CloseLast(cur)
    ELSE LET line == Strip(lines[idx])
         IN  IF StartsWithOrdinal(line, {"."})
               THEN LegacyLineScan(lines, idx + 1, found \o cur,
                      <<[number |-> SubSeq(line, 1, SkipWhile(line, 1, Digits) - 1),
                         name |-> BareName(line),
                         description |-> <<>>,
                         additional_ingredients |-> <<>>]>>)
             ELSE IF Len(line) >= 1 /\ line[1] = "-" /\ cur # <<>>
               THEN IF Contains(line, AdditionalShort)
                      THEN IF cur[1].description # <<>>
                             THEN LegacyLineScan(lines, idx + 1, found,
                                    <<[cur[1] EXCEPT !.description =
                                         @ \o CartPrefix \o StripAdditionalLabel(line)]>>)
                             ELSE LegacyLineScan(lines, idx + 1, found,
                                    <<[cur[1] EXCEPT !.additional_ingredients =
                                         StripAdditionalLabel(line)]>>)
                      ELSE LegacyLineScan(lines, idx + 1, found,
                             <<[cur[1] EXCEPT !.description = Strip(SubSeq(line, 2, Len(line)))]>>)
             ELSE IF /\ cur # <<>>
                     /\ line # <<>>
                     /\ ~StartsWithAt(line, 1, <<"*", "*">>)
                     /\ cur[1].description # <<>>
               THEN LegacyLineScan(lines, idx + 1, found,
                      <<[cur[1] EXCEPT !.description = @ \o <<" ">> \o line]>>)
             ELSE LegacyLineScan(lines, idx + 1, found, cur)

\* lines 218-228: simple_pattern is, character for character, the pattern of
\* the core service's _parse_recipe_response, applied with the same flag
SimpleFindAll(t, pos) == CoreFindAll(t, pos)

_parse_recipes(t) ==
    IF EnhancedFindAll(t, 1) # <<>> THEN EnhancedFindAll(t, 1)
    ELSE IF SimpleFindAll(t, 1) # <<>> THEN SimpleFindAll(t, 1)
    ELSE LegacyLineScan(SplitLines(t), 1, <<>>, <<>>)

----------------------------------------------------------------------------
(* core.recipe_service.RecipeService._is_mood_based_input                  *)
(* (bedrock_client.BedrockClient._is_mood_based_input is the same code)    *)
(* A character outside ASCII is the token "uXXXX" of its code point.       *)

\* self.mood_keywords
MoodKeywords ==
    <<
        <<"u3055", "u3063", "u3071", "u308A">>,   \* さっぱり
        <<"u3042", "u3063", "u3055", "u308A">>,   \* あっさり
        <<"u3053", "u3063", "u3066", "u308A">>,   \* こってり
        <<"u30AC", "u30C3", "u30C4", "u30EA">>,   \* ガッツリ
        <<"u30D8", "u30EB", "u30B7", "u30FC">>,   \* ヘルシー
        <<"u590F", "u30D0", "u30C6">>,   \* 夏バテ
        <<"u75B2", "u308C">>,   \* 疲れ
        <<"u30B9", "u30BF", "u30DF", "u30CA">>,   \* スタミナ
        <<"u6E29", "u307E", "u308B">>,   \* 温まる
        <<"u51B7", "u305F", "u3044">>,   \* 冷たい
        <<"u8F9B", "u3044">>,   \* 辛い
        <<"u7518", "u3044">>,   \* 甘い
        <<"u512A", "u3057", "u3044">>,   \* 優しい
        <<"u6FC3", "u539A">>,   \* 濃厚
        <<"u30B5", "u30C3", "u30D1", "u30EA">>,   \* サッパリ
        <<"u6C17", "u5206">>,   \* 気分
        <<"u98DF", "u3079", "u305F", "u3044">>,   \* 食べたい
        <<"u7CFB">>,   \* 系
        <<"u306A", "u611F", "u3058">>,   \* な感じ
        <<"u7684", "u306A">>,   \* 的な
        <<"u5143", "u6C17">>,   \* 元気
        <<"u30D1", "u30EF", "u30FC">>,   \* パワー
        <<"u8EFD", "u3081">>,   \* 軽め
        <<"u91CD", "u3081">>,   \* 重め
        <<"u98DF", "u6B32">>,   \* 食欲
        <<"u304C", "u3063", "u3064", "u308A">>,   \* がっつり
        <<"u3057", "u3063", "u304B", "u308A">>,   \* しっかり
        <<"u30DC", "u30EA", "u30E5", "u30FC", "u30E0">>,   \* ボリューム
        <<"u6E80", "u8DB3">>,   \* 満足
        <<"u548C", "u98A8">>,   \* 和風
        <<"u6D0B", "u98A8">>,   \* 洋風
        <<"u4E2D", "u83EF">>,   \* 中華
        <<"u30A8", "u30B9", "u30CB", "u30C3", "u30AF">>,   \* エスニック
        <<"u30A4", "u30BF", "u30EA", "u30A2", "u30F3">>    \* イタリアン
    >>

\* the indicator list without 'を使って' (the list of app/recipe_service.py line 102)
IngredientIndicators_SixOnly ==
    <<
        <<"u3068">>,
        <<"u3084">>,
        <<"u3001">>,
        <<"u306E">>,
        <<"u304C", "u6B8B", "u3063", "u3066">>,
        <<"u304C", "u3042", "u308B">>
    >>

\* self.ingredient_indicators
IngredientIndicators ==
    <<
        <<"u3068">>,   \* と
        <<"u3084">>,   \* や
        <<"u3001">>,   \* 、
        <<"u306E">>,   \* の
        <<"u304C", "u6B8B", "u3063", "u3066">>,   \* が残って
        <<"u304C", "u3042", "u308B">>,   \* がある
        <<"u3092", "u4F7F", "u3063", "u3066">>    \* を使って
    >>

\* the cased letters of the modelled alphabet and their lower-case forms
LowerOf == [c \in {"A", "X"} |-> IF c = "A" THEN "a" ELSE "x"]

\* str.lower()
Lower(t) == [i \in 1..Len(t) |-> IF t[i] \in DOMAIN LowerOf THEN LowerOf[t[i]] ELSE t[i]]

\* `if ingredient_count >= 2`
IndicatorThreshold == 2

\* sum(1 for indicator in self.ingredient_indicators if indicator in user_input)
IngredientCount(user_text) ==
    Cardinality({k \in 1..Len(IngredientIndicators) : Contains(user_text, IngredientIndicators[k])})

\* any(keyword in input_lower for keyword in self.mood_keywords)
HasMoodKeyword(input_lower) ==
    \E k \in 1..Len(MoodKeywords) : Contains(input_lower, MoodKeywords[k])

\* _is_mood_based_input answering False as soon as one indicator occurs
_is_mood_based_input_AnyIndicator(user_text) ==
    IF IngredientCount(user_text) >= 1
      THEN FALSE
      ELSE HasMoodKeyword(Lower(user_text))

_is_mood_based_input(user_text) ==
    IF IngredientCount(user_text) >= IndicatorThreshold
      THEN FALSE
      ELSE HasMoodKeyword(Lower(user_text))

----------------------------------------------------------------------------
(* core.claude_client.ClaudeClient: the completion gateway *)

\* Python's None and a present value
None == <<>>

Some(x) == <<x>>

\* error codes of botocore's ClientError: the five of the table and one outside it
ErrorCodes == {"ThrottlingException", "ModelNotReadyException", "ValidationException",
               "AccessDeniedException", "ServiceUnavailableException", "InternalServerException"}

\* _handle_bedrock_error: error_messages.get(error_code, default)
_handle_bedrock_error(error_code) ==
    CASE error_code = "ThrottlingException" ->
           "The service is currently experiencing high demand. Please try again in a moment."
      [] error_code = "ModelNotReadyException" ->
           "The AI model is preparing. Please wait a moment and try again."
      [] error_code = "ValidationException" ->
           "Invalid request format. Please check your input."
      [] error_code = "AccessDeniedException" ->
           "Access denied to the AI service."
      [] error_code = "ServiceUnavailableException" ->
           "The service is temporarily unavailable."
      [] OTHER ->
           "An error occurred while processing your request."

\* What one invoke_model call can do:
\*   text          : a body carrying content[0].text
\*   no_text_field : a body without it (_extract_text_from_response raises ValueError)
\*   null_text     : a body whose content[0].text is null (len(content) raises TypeError)
\*   client_error  : botocore ClientError with an error code
\*   exception     : any other exception
Invocation(kind, text, code) == [kind |-> kind, text |-> text, code |-> code]

\* generate_completion answering success, with an empty text, when the body
\* lacks the text field
generate_completion_MissingTextSucceeds(inv) ==
    IF inv.kind \in {"text", "no_text_field"}
      THEN [success |-> TRUE, content |-> Some(inv.text), error |-> None]
    ELSE IF inv.kind = "client_error"
      THEN [success |-> FALSE, content |-> None,
            error |-> Some(_handle_bedrock_error(inv.code))]
    ELSE [success |-> FALSE, content |-> None,
          error |-> Some("An unexpected error occurred while generating the response.")]

\* generate_completion, lines 56-88
generate_completion(inv) ==
    IF inv.kind = "text"
      THEN [success |-> TRUE, content |-> Some(inv.text), error |-> None]
    ELSE IF inv.kind = "client_error"
      THEN [success |-> FALSE, content |-> None,
            error |-> Some(_handle_bedrock_error(inv.code))]
    ELSE [success |-> FALSE, content |-> None,
          error |-> Some("An unexpected error occurred while generating the response.")]

----------------------------------------------------------------------------
(* core.recipe_service.RecipeService.generate_recipe_suggestions *)

\* _create_mood_based_prompt / _create_ingredient_based_prompt: the template
\* chosen and the user's text interpolated verbatim
CreatePrompt(user_text, is_mood_based) ==
    [template |-> IF is_mood_based THEN "mood" ELSE "ingredient", input |-> user_text]

\* generate_recipe_suggestions dropping the entries that have no description
generate_recipe_suggestions_Filtering(user_text, inv) ==
    LET is_mood_based == _is_mood_based_input(user_text)
        input_type == IF is_mood_based THEN "mood" ELSE "ingredient"
        res == generate_completion(inv)
    IN  IF ~res.success
          THEN [success |-> FALSE, recipes |-> None, error |-> res.error,
                input_type |-> input_type]
          ELSE [success |-> TRUE,
                recipes |-> Some(SelectSeq(_parse_recipe_response(res.content[1]),
                                           LAMBDA r : r.description # <<>>)),
                error |-> None,
                input_type |-> input_type]

generate_recipe_suggestions(user_text, inv) ==
    LET is_mood_based == _is_mood_based_input(user_text)
        input_type == IF is_mood_based THEN "mood" ELSE "ingredient"
        res == generate_completion(inv)
    IN  IF ~res.success
          THEN [success |-> FALSE, recipes |-> None, error |-> res.error,
                input_type |-> input_type]
          ELSE [success |-> TRUE,
                recipes |-> Some(_parse_recipe_response(res.content[1])),
                error |-> None,
                input_type |-> input_type]

----------------------------------------------------------------------------
(* recipe_service.RecipeService.generate_recipe (app/recipe_service.py) and *)
(* claude_sdk_client.ClaudeSDKClient.generate_recipe                        *)

\* self.mood_keywords of app/recipe_service.py
AppMoodKeywords ==
    <<
        <<"u3055", "u3063", "u3071", "u308A">>,   \* さっぱり
        <<"u3042", "u3063", "u3055", "u308A">>,   \* あっさり
        <<"u3053", "u3063", "u3066", "u308A">>,   \* こってり
        <<"u30AC", "u30C3", "u30C4", "u30EA">>,   \* ガッツリ
        <<"u30D8", "u30EB", "u30B7", "u30FC">>,   \* ヘルシー
        <<"u590F", "u30D0", "u30C6">>,   \* 夏バテ
        <<"u75B2", "u308C">>,   \* 疲れ
        <<"u30B9", "u30BF", "u30DF", "u30CA">>,   \* スタミナ
        <<"u6E29", "u307E", "u308B">>,   \* 温まる
        <<"u51B7", "u305F", "u3044">>,   \* 冷たい
        <<"u8F9B", "u3044">>,   \* 辛い
        <<"u7518", "u3044">>,   \* 甘い
        <<"u6C17", "u5206">>,   \* 気分
        <<"u98DF", "u3079", "u305F", "u3044">>,   \* 食べたい
        <<"u7CFB">>,   \* 系
        <<"u5143", "u6C17">>,   \* 元気
        <<"u8EFD", "u3081">>,   \* 軽め
        <<"u91CD", "u3081">>,   \* 重め
        <<"u98DF", "u6B32">>    \* 食欲
    >>

\* ingredient_indicators of app/recipe_service.py: と や 、 の が残って がある
AppIngredientIndicators ==
    <<
        <<"u3068">>,
        <<"u3084">>,
        <<"u3001">>,
        <<"u306E">>,
        <<"u304C", "u6B8B", "u3063", "u3066">>,
        <<"u304C", "u3042", "u308B">>
    >>

\* RecipeService._is_mood_based_input of app/recipe_service.py
App_is_mood_based_input(user_text) ==
    LET has_mood_keyword ==
            \E k \in 1..Len(AppMoodKeywords) : Contains(Lower(user_text), AppMoodKeywords[k])
        ingredient_count ==
            Cardinality({k \in 1..Len(AppIngredientIndicators) :
                           Contains(user_text, AppIngredientIndicators[k])})
    IN  IF ingredient_count >= 2 THEN FALSE ELSE has_mood_keyword

\* RecipeService._create_prompt
_create_prompt(user_text, is_mood_based) ==
    [template |-> IF is_mood_based THEN "mood" ELSE "ingredient", input |-> user_text]

\* RecipeService._handle_bedrock_error of app/recipe_service.py
App_handle_bedrock_error(error_code) ==
    CASE error_code = "ThrottlingException" ->
           "The service is currently experiencing high demand. Please try again in a moment."
      [] error_code = "ModelNotReadyException" ->
           "The AI model is preparing. Please wait a moment and try again."
      [] error_code = "ValidationException" ->
           "Invalid request format. Please check your input."
      [] error_code = "AccessDeniedException" ->
           "Access denied to the AI service."
      [] error_code = "ServiceUnavailableException" ->
           "The service is temporarily unavailable."
      [] OTHER ->
           "An error occurred while processing your request."

\* What the request to the Claude SDK Lambda can do: a status other than 200,
\* a timeout, another RequestException, any other exception, or a 200 whose
\* JSON body is returned as it is
SdkCall(kind, body) == [kind |-> kind, body |-> body]

\* ClaudeSDKClient.generate_recipe
ClaudeSDKClient_generate_recipe(call) ==
    CASE call.kind = "sdk_json" -> call.body
      [] call.kind = "sdk_non200" ->
           [success |-> FALSE, recipes |-> None, error |-> Some("API error: 500"),
            input_type |-> "ingredient"]
      [] call.kind = "sdk_timeout" ->
           [success |-> FALSE, recipes |-> None,
            error |-> Some("Request timeout - please try again"),
            input_type |-> "ingredient"]
      [] call.kind = "sdk_request_exception" ->
           [success |-> FALSE, recipes |-> None,
            error |-> Some("Failed to connect to recipe service"),
            input_type |-> "ingredient"]
      [] OTHER ->
           [success |-> FALSE, recipes |-> None,
            error |-> Some("An unexpected error occurred"),
            input_type |-> "ingredient"]

\* generate_recipe on the Bedrock backend, lines 60-96: _invoke_claude raises
\* on everything but a body with content[0].text, and a null text makes
\* _parse_recipes raise
generate_recipe(user_text, inv) ==
    LET is_mood_based == App_is_mood_based_input(user_text)
        input_type == IF is_mood_based THEN "mood" ELSE "ingredient"
    IN  IF inv.kind = "text"
          THEN [success |-> TRUE,
                recipes |-> Some(_parse_recipes(inv.text)),
                error |-> None,
                input_type |-> input_type]
        ELSE IF inv.kind = "client_error"
          THEN [success |-> FALSE, recipes |-> None,
                error |-> Some(App_handle_bedrock_error(inv.code)),
                input_type |-> "ingredient"]
        ELSE [success |-> FALSE, recipes |-> None,
              error |-> Some("An unexpected error occurred"),
              input_type |-> "ingredient"]

----------------------------------------------------------------------------
(* How a service result is shown to the user, per delivery path *)

\* The Japanese texts are named, the text in the comment:
\*   JA_GENERAL_APOLOGY   申し訳ございません。エラーが発生しました。\nもう一度お試しください。
\*   JA_HIGH_DEMAND       申し訳ございません。現在アクセスが集中しています。...
\*   JA_MODEL_PREPARING   申し訳ございません。AIモデルが準備中です。...
\*   JA_GENERATION_ERROR  申し訳ございません。レシピの生成中にエラーが発生しました。
\* LineBotHandler._create_error_message / LineHandler._create_error_message:
\* error_messages.get(error_type, error_messages["general"]); error is None
\* or Some(message)
_create_error_message(error) ==
    CASE error = Some("The service is currently experiencing high demand. Please try again in a moment.") ->
           "JA_HIGH_DEMAND"
      [] error = Some("The AI model is preparing. Please wait a moment and try again.") ->
           "JA_MODEL_PREPARING"
      [] error = Some("An error occurred while processing your request.") ->
           "JA_GENERATION_ERROR"
      [] OTHER ->
           "JA_GENERAL_APOLOGY"

\*   JA_SLACK_HIGH_DEMAND       現在アクセスが集中しています。少し時間をおいてからお試しください。
\*   JA_SLACK_MODEL_PREPARING   AIモデルが準備中です。しばらくお待ちください。
\*   JA_SLACK_GENERATION_ERROR  レシピの生成中にエラーが発生しました。
\*   JA_SLACK_RETRY             エラーが発生しました。もう一度お試しください。
\* SlackHandler._create_error_response / SlackBotHandler._create_error_response:
\* the text is '⚠️ ' followed by error_messages.get(error, default)
_create_error_response(error) ==
    <<"WARNING_SIGN",
      CASE error = Some("The service is currently experiencing high demand. Please try again in a moment.") ->
             "JA_SLACK_HIGH_DEMAND"
        [] error = Some("The AI model is preparing. Please wait a moment and try again.") ->
             "JA_SLACK_MODEL_PREPARING"
        [] error = Some("An error occurred while processing your request.") ->
             "JA_SLACK_GENERATION_ERROR"
        [] OTHER ->
             "JA_SLACK_RETRY">>

\* str(x) of an optional message
StrOf(error) == IF error = None THEN "None" ELSE error[1]

\* f"❌ レシピ生成に失敗しました: {result.get('error', '不明なエラー')}"
DeferredErrorText(res) ==
    <<"JA_RECIPE_GENERATION_FAILED_COLON",
      IF "error" \in DOMAIN res THEN StrOf(res.error) ELSE "JA_UNKNOWN_ERROR">>

\* a reply or payload: what kind it is and the parts of its text
Shown(kind, text) == [kind |-> kind, text |-> text]

\* _handle_text_message from the service's result on (both LINE handlers):
\* a result without 'success' raises KeyError into the except handler
LineReply(res) ==
    IF "success" \notin DOMAIN res
      THEN Shown("error", <<_create_error_message(Some("general"))>>)
    ELSE IF ~res.success
      THEN Shown("error", <<_create_error_message(res.error)>>)
    ELSE IF res.recipes[1] = <<>>
      THEN Shown("no_recipes", <<"JA_NO_RECIPES_FOUND">>)
    ELSE Shown("recipes", <<>>)

\* SlackHandler.handle_slash_command from the service's result on
SlackCommandResponse(res) ==
    IF ~res.success
      THEN Shown("error", _create_error_response(res.error))
    ELSE IF res.recipes[1] = <<>>
      THEN Shown("no_recipes", <<"JA_SLACK_NO_RECIPES_FOUND">>)
    ELSE Shown("recipes", <<>>)

\* the follow-up payload of SlackBotHandler._process_recipe_async and of the
\* async processor: `if result['success'] and result['recipes']`, else the
\* error text; a result without 'success' raises KeyError into the handler
\* that posts f"❌ エラーが発生しました: {str(e)}"
DeferredPayload(res) ==
    IF "success" \notin DOMAIN res
      THEN Shown("error", <<"JA_ERROR_OCCURRED_COLON", "'success'">>)
    ELSE IF res.success /\ res.recipes # None /\ res.recipes[1] # <<>>
      THEN Shown("recipes", <<>>)
    ELSE Shown("error", DeferredErrorText(res))

----------------------------------------------------------------------------
(* handler.py: detect_channel, get_line_handler, get_slack_handler,         *)
(* lambda_handler                                                           *)

\* An event is the mapping API Gateway hands to the function. A key of the
\* mapping may be missing (Absent) or carry JSON null (Null).
Absent == "ABSENT"
Null == "NULL"

\* event.get(key, default) for a string-valued key
Field(v, default) == IF v = Absent THEN default ELSE v

\* the request bodies of the model
FormCommandText == "command=/dinner&text=curry"
FormCommandUser == "command=/dinner&user_name=taro"
JsonEvents == "{\"events\": []}"
JsonType == "{\"type\": \"event_callback\", \"event\": {}}"
JsonScalar == "5"
NotJson == "hello"
B64Form == "base64(command=/dinner&text=curry)"
B64Json == "base64({\"type\": \"event_callback\"})"
B64Binary == "base64(bytes that are not UTF-8)"

\* 'command=' in body, 'text=' in body, 'user_name=' in body
HasCommand(body) == body \in {FormCommandText, FormCommandUser}
HasText(body) == body \in {FormCommandText}
HasUserName(body) == body \in {FormCommandUser}

\* json.loads(body), as far as detect_channel looks at it
JsonLoads(body) ==
    CASE body = JsonEvents -> "events_list"
      [] body = JsonType -> "type_or_event"
      [] body = JsonScalar -> "scalar"
      [] OTHER -> "raise"

\* base64.b64decode(body).decode('utf-8')
B64Decode(body) ==
    CASE body = B64Form -> FormCommandText
      [] body = B64Json -> JsonType
      [] OTHER -> "raise"

\* '/slack' in path, '/line' in path
HasSlack(path) == path \in {"/slack/events"}
HasLine(path) == path \in {"/line/webhook"}

\* k.lower() for the header names of the model
HeaderLower(k) ==
    CASE k = "X-Line-Signature" -> "x-line-signature"
      [] k = "X-Slack-Signature" -> "x-slack-signature"
      [] OTHER -> k

\* detect_channel: "slack", "line", "None", or "raise" when it raises
detect_channel(event) ==
    LET body == Field(event.body, "")
        path == Field(event.path, "")
        headers_lower == {HeaderLower(k) : k \in event.headers.names}
    IN  IF body = Null THEN "raise"                       \* body[:100]
        ELSE IF path = Null THEN "raise"                  \* '/slack' in path
        ELSE IF HasSlack(path) THEN "slack"
        ELSE IF HasLine(path) THEN "line"
        ELSE IF event.headers.is = "null" THEN "raise"    \* headers.items()
        ELSE IF "x-line-signature" \in headers_lower THEN "line"
        ELSE IF "x-slack-signature" \in headers_lower THEN "slack"
        ELSE IF body = "" THEN "None"
        ELSE IF HasCommand(body) /\ HasText(body) THEN "slack"
        ELSE IF JsonLoads(body) = "events_list" THEN "line"
        ELSE IF JsonLoads(body) = "type_or_event" THEN "slack"
        ELSE "None"                  \* json.loads or `in` raised, or no hint

\* lines 104-132: detect_channel, the path fallback, the command fallback
ResolveChannel(event) ==
    LET detected == detect_channel(event)
        path == Field(event.path, "")
        raw_path == Field(event.rawPath, "")
        resource_path == Field(event.requestContext.resourcePath, "")
        all_paths == <<path, raw_path, resource_path>>
        Hit(i) == all_paths[i] \notin {"", Null}
                    /\ (HasSlack(all_paths[i]) \/ HasLine(all_paths[i]))
        body == Field(event.body, "")
    IN  IF detected # "None" THEN detected
        ELSE IF event.requestContext.is = "null" THEN "raise"   \* request_context.get
        ELSE IF \E i \in 1..3 : Hit(i)
          THEN LET first == CHOOSE i \in 1..3 : Hit(i) /\ \A j \in 1..(i - 1) : ~Hit(j)
               IN  IF HasSlack(all_paths[first]) THEN "slack" ELSE "line"
        ELSE IF HasCommand(body) /\ (HasText(body) \/ HasUserName(body)) THEN "slack"
        ELSE "None"

\* get_line_handler / get_slack_handler: construct once, keep None when the
\* constructor raises
get_line_handler(cached, init_ok) ==
    IF cached = None /\ init_ok THEN Some("LineBotHandler") ELSE cached

get_slack_handler(cached, init_ok) ==
    IF cached = None /\ init_ok THEN Some("SlackBotHandler") ELSE cached

\* status code of the mapping each handler method returns, by how its own
\* processing went ("raises" is not a return and is handled by the caller)
HandleWebhookStatus(went) ==
    CASE went = "bad_signature" -> 400
      [] went = "failure" -> 500
      [] OTHER -> 200

\* handle_slash_command answers 200 on every return, its error response too
HandleSlashCommandStatus(went) == 200

\* handle_event: _verify_signature is always True
HandleEventStatus(went) == IF went = "failure" THEN 500 ELSE 200

Returned(status, error, line, slack) ==
    [raised |-> FALSE, response |-> [statusCode |-> status, error |-> error],
     line |-> line, slack |-> slack]

Raising(line, slack) ==
    [raised |-> TRUE, response |-> [statusCode |-> 0, error |-> ""],
     line |-> line, slack |-> slack]

\* the try block of lambda_handler, lines 102-194
lambda_handler_try(event, line, slack, env) ==
    LET chan == ResolveChannel(event)
    IN  IF chan = "raise" THEN Raising(line, slack)
        ELSE IF chan = "None"
          THEN Returned(400, "Could not detect channel", line, slack)
        ELSE IF chan = "line"
          THEN LET handler == get_line_handler(line, env.init_ok)
               IN  IF handler = None
                     THEN Returned(503, "LINE handler not available", handler, slack)
                   ELSE IF event.headers.is = "null"      \* event.get('headers', {}).get
                     THEN Raising(handler, slack)
                   ELSE IF env.handler = "raises" THEN Raising(handler, slack)
                   ELSE Returned(HandleWebhookStatus(env.handler), "", handler, slack)
        ELSE LET handler == get_slack_handler(slack, env.init_ok)
                 raw == Field(event.body, "")
                 body == IF event.isBase64Encoded THEN B64Decode(raw) ELSE raw
             IN  IF handler = None
                   THEN Returned(503, "Slack handler not available", line, handler)
                 ELSE IF body = "raise" THEN Raising(line, handler)
                 ELSE IF env.handler = "raises" THEN Raising(line, handler)  \* line 185 re-raises
                 ELSE IF HasCommand(body)
                   THEN Returned(HandleSlashCommandStatus(env.handler), "", line, handler)
                 ELSE Returned(HandleEventStatus(env.handler), "", line, handler)

\* the value every signature header of the model carries
SignatureValue == "dummy-signature"

\* headers.get(key, default) of the event's header mapping
HeaderGet(headers, key, default) ==
    IF key \in headers.names THEN SignatureValue ELSE default

\* lines 143-154: the call handler.handle_webhook(body, signature) the
\* invocation makes, None when it does not get that far
handle_webhook_call(event, line, env) ==
    IF /\ ResolveChannel(event) = "line"
       /\ get_line_handler(line, env.init_ok) # None
       /\ event.headers.is # "null"
      THEN Some([body |-> Field(event.body, ""),
                 signature |-> HeaderGet(event.headers, "x-line-signature", "")])
      ELSE None

\* the try block let an exception leave lambda_handler
lambda_handler_NoOuterExcept(event, line, slack, env) ==
    LET r == lambda_handler_try(event, line, slack, env)
    IN  [escaped |-> r.raised, response |-> r.response, line |-> r.line, slack |-> r.slack]

\* lambda_handler: line 100 reads event.get('path', '/') of the mapping, then
\* the try block, and `except Exception` answers 500
lambda_handler(event, line, slack, env) ==
    LET r == lambda_handler_try(event, line, slack, env)
    IN  [escaped |-> FALSE,
         response |-> IF r.raised
                        THEN [statusCode |-> 500, error |-> "Internal server error"]
                        ELSE r.response,
         line |-> r.line, slack |-> r.slack]

----------------------------------------------------------------------------
(* line_bot.LineBotHandler._handle_text_message and                         *)
(* handlers/line_handler.LineHandler._handle_text_message                   *)

\* the command a message is for LineBotHandler (lines 53-76); LineHandler
\* knows no commands
LineCommand(message) ==
    CASE message = <<"a", "d", "d", " ">> -> "add_nothing"
      [] Len(message) > 4 /\ SubSeq(message, 1, 4) = <<"a", "d", "d", " ">> -> "add"
      [] message = <<"l", "i", "s", "t">> -> "list"
      [] message = <<"c", "l", "e", "a", "r">> -> "clear"
      [] message = <<"s", "t", "o", "r", "e", "d">> -> "stored"
      [] OTHER -> "none"

\* the message of the reply_message call LineBotHandler's try block makes
LineBot_Reply(message, env) ==
    LET command == LineCommand(message)
    IN  CASE command = "add_nothing" -> Shown("command", <<"JA_SPECIFY_INGREDIENTS">>)
          [] command = "add" ->
               IF env.storage_ok THEN Shown("command", <<"JA_INGREDIENTS_ADDED">>)
               ELSE Shown("command", <<"JA_ADD_FAILED">>)
          [] command = "list" -> Shown("command", <<"INGREDIENT_LIST">>)
          [] command = "clear" ->
               IF env.storage_ok THEN Shown("command", <<"JA_INGREDIENTS_CLEARED">>)
               ELSE Shown("command", <<"JA_CLEAR_FAILED">>)
          [] command = "stored" /\ env.stored = <<>> ->
               Shown("command", <<"JA_NO_STORED_INGREDIENTS">>)
          [] command = "stored" /\ env.stored # <<>> ->
               LineReply(generate_recipe(env.stored, env.inv))
          [] OTHER -> LineReply(generate_recipe(message, env.inv))

\* the message of the reply_message call LineHandler's try block makes
LineHandler_Reply(message, env) ==
    LineReply(generate_recipe_suggestions(message, env.inv))

\* a call line_bot_api.reply_message(reply_token, message) and whether it raised
ReplyCall(reply_token, message, raised) ==
    [reply_token |-> reply_token, message |-> message, raised |-> raised]

----------------------------------------------------------------------------
(* Slack event callbacks: slack_bot.SlackBotHandler.handle_event,           *)
(* handlers/slack_handler.SlackHandler.handle_event and                     *)
(* slack_responder.handle_slack_event                                       *)

\* A body is what json.loads makes of it: json is FALSE when it raises, else
\* the mapping has type, challenge (None when the key is missing) and event
\* (None when the key is missing).
\* An event is a mapping with type, channel_type, bot_id and text; a missing
\* key is Absent.

\* re.sub(r'<@[A-Z0-9]+>', '', text).strip()
_remove_bot_mention(text) ==
    CASE text = "<@U1> curry" -> "curry"
      [] text = "<@U1>" -> ""
      [] text = " " -> ""
      [] OTHER -> text

\* slack_responder lines 190-196: strip, then cut a leading mention
ResponderText(text) ==
    CASE text = "<@U1> curry" -> "curry"
      [] text = "<@U1>" -> ""
      [] text = " " -> ""
      [] OTHER -> text

EventResult(status, body, generated, dispatched) ==
    [response |-> [statusCode |-> status, body |-> body],
     generated |-> generated, dispatched |-> dispatched]

\* the part of handle_event shared by SlackBotHandler and SlackHandler: the
\* try block and its except
HandleEventBody(body) ==
    IF ~body.json
      THEN EventResult(500, <<"error", "Internal server error">>, <<>>, <<>>)
    ELSE IF body.type = "url_verification"
      THEN IF body.challenge = None                   \* event_data['challenge']
             THEN EventResult(500, <<"error", "Internal server error">>, <<>>, <<>>)
             ELSE EventResult(200, <<"challenge", body.challenge[1]>>, <<>>, <<>>)
    ELSE LET event_type == IF body.event = None THEN Absent ELSE body.event[1].type
         IN  IF event_type \notin {"app_mention", "message"}
               THEN EventResult(200, <<"status", "ignored">>, <<>>, <<>>)
               ELSE EventResult(200, <<"status", "ok">>,
                                <<_remove_bot_mention(Field(body.event[1].text, ""))>>, <<>>)

\* SlackBotHandler.handle_event: _verify_signature returns True on every path
SlackBot_handle_event(body, signed) == HandleEventBody(body)

\* SlackHandler.handle_event: 401 unless _verify_slack_signature passes
SlackHandler_handle_event(body, signed) ==
    IF ~signed
      THEN EventResult(401, <<"error", "Unauthorized">>, <<>>, <<>>)
      ELSE HandleEventBody(body)

\* handle_slack_event goes on to the event when the body has a challenge
handle_slack_event_ChallengeIgnored(event_data) ==
    IF event_data.json /\ event_data.event # None
         /\ event_data.event[1].bot_id = Absent
         /\ (event_data.event[1].type = "app_mention" \/ event_data.event[1].channel_type = "im")
      THEN EventResult(200, <<"text", "OK">>, <<>>,
                       <<[text |-> "curry", source |-> "slack_event"]>>)
      ELSE EventResult(200, <<"text", "OK">>, <<>>,
                       <<[text |-> "", source |-> "slack_event"]>>)

\* slack_responder.handle_slack_event
handle_slack_event(event_data) ==
    IF ~event_data.json                                \* parse_qs mapping: no challenge, no event
      THEN EventResult(200, <<"text", "OK">>, <<>>, <<>>)
    ELSE IF event_data.challenge # None
      THEN EventResult(200, <<"text", event_data.challenge[1]>>, <<>>, <<>>)
    ELSE IF event_data.event = None
      THEN EventResult(200, <<"text", "OK">>, <<>>, <<>>)
    ELSE LET event_info == event_data.event[1]
             text == ResponderText(Field(event_info.text, ""))
         IN  IF event_info.bot_id # Absent
               THEN EventResult(200, <<"text", "OK">>, <<>>, <<>>)
             ELSE IF (event_info.type = "app_mention" \/ event_info.channel_type = "im")
                      /\ text # ""
               THEN EventResult(200, <<"text", "OK">>, <<>>,
                                <<[text |-> text, source |-> "slack_event"]>>)
             ELSE EventResult(200, <<"text", "OK">>, <<>>, <<>>)

----------------------------------------------------------------------------
(* ingredient_storage.IngredientStorage                                     *)

\* set(xs)
ToSet(xs) == {xs[i] : i \in 1..Len(xs)}

\* list(set(xs)): the distinct elements, in an order the build chooses
ListOfSet(xs) ==
    LET S == ToSet(xs)
    IN  {f \in [1..Cardinality(S) -> S] : \A i, j \in 1..Cardinality(S) : f[i] = f[j] => i = j}

\* get_ingredients: the stored list, [] when the user has no item or when
\* get_item raises ClientError
get_ingredients(tbl, user_id, get_fails) ==
    IF get_fails THEN <<>> ELSE tbl[user_id]

\* dynamodb.delete_item: removes the user's item; the store then reads as []
delete_item(tbl, user_id, delete_fails) ==
    IF delete_fails
      THEN [raised |-> TRUE, table |-> tbl]
      ELSE [raised |-> FALSE, table |-> [tbl EXCEPT ![user_id] = <<>>]]

\* put_item writes the item and then answers ClientError
put_item_WritesThenRaises(tbl, user_id, all_ingredients, read, put_fails) ==
    [raised |-> put_fails, table |-> [tbl EXCEPT ![user_id] = all_ingredients]]

\* put_item answers ClientError when the stored list is not the one read
put_item_Conditional(tbl, user_id, all_ingredients, read, put_fails) ==
    IF put_fails \/ tbl[user_id] # read
      THEN [raised |-> TRUE, table |-> tbl]
      ELSE [raised |-> FALSE, table |-> [tbl EXCEPT ![user_id] = all_ingredients]]

\* dynamodb.put_item: replaces the user's item, whatever was stored
put_item(tbl, user_id, all_ingredients, read, put_fails) ==
    IF put_fails
      THEN [raised |-> TRUE, table |-> tbl]
      ELSE [raised |-> FALSE, table |-> [tbl EXCEPT ![user_id] = all_ingredients]]

----------------------------------------------------------------------------
(* Bounded inputs *)

\* longest free text, in lines
MaxLines == 4

\* longest text over the whole alphabet, in characters
MaxShortLen == 3

\* most entries of a well-formed text
MaxEntries == 2

\* how far past MaxDescriptionLen the long texts go
LongSlack == 2

\* most chunks of a classifier input
MaxChunks == 3

\* most chunks of a user input of the service
MaxServiceChunks == 1

\* longest completion text of the service, in lines
MaxCompletionLines == 2

ParserAlphabet == Digits \cup WhiteSpace \cup {".", "FWDOT", "-", "FWDASH", "NAKATEN", "a", "b"}

\* all concatenations of at most n members of C
RECURSIVE ConcatsUpTo(_, _)
ConcatsUpTo(C, n) ==
    IF n = 0 THEN {<<>>}
    ELSE LET P == ConcatsUpTo(C, n - 1)
         IN  P \cup {p \o c : p \in P, c \in C}

\* all texts of 1..n lines drawn from L
RECURSIVE LinesUpTo(_, _)
LinesUpTo(L, n) ==
    IF n = 1 THEN L
    ELSE LET P == LinesUpTo(L, n - 1)
         IN  P \cup {p \o <<NL>> \o l : p \in P, l \in L}

LineShapes ==
    { <<"1", ".", " ", "a">>,
      <<"2", "FWDOT", "a">>,
      <<" ", "-", " ", "b">>,
      <<"FWDASH", "b">>,
      <<"NAKATEN", "b">>,
      <<"a">>,
      <<>>,
      <<"1", ".">>,
      <<"-">> }

\* texts longer and shorter than the synthetic entry's description limit
LongTexts ==
    { [i \in 1..n |-> IF i <= MaxDescriptionLen THEN "a" ELSE "b"] :
        n \in (MaxDescriptionLen - 1)..(MaxDescriptionLen + LongSlack) }

FreeTexts ==
    LinesUpTo(LineShapes, MaxLines)
      \cup ConcatsUpTo({<<c>> : c \in ParserAlphabet}, MaxShortLen)
      \cup LongTexts

\* a well-formed entry: a numbered line with a name, then a (possibly
\* indented) marked line with a description; name and description are
\* non-blank and hold no line break
EntryStyles ==
    { [name |-> <<"a">>, indent |-> <<>>, description |-> <<"b">>],
      [name |-> <<" ", "a", "1", ".", " ">>, indent |-> <<" ", " ">>,
       description |-> <<" ", "2", ".", "b", " ">>] }

Entries ==
    { [ordinal |-> o, dot |-> d, name |-> st.name, indent |-> st.indent,
       mark |-> m, description |-> st.description] :
        o \in {<<"1">>, <<"1", "2">>}, d \in OrdinalDots, m \in DescriptionMarks,
        st \in EntryStyles }

\* texts in the bracketed format the legacy prompt asks for
BracketTexts ==
    LET named == <<"1", ".", " ", "[", "a", "]">>
        second == <<"2", ".", " ", "[", "b", "]">>
        plain == <<"2", ".", " ", "b">>
        desc == <<"-", " ", "b">>
    IN  { named \o <<NL>> \o desc,
          named \o <<NL>> \o desc \o <<NL>> \o second \o <<NL>> \o desc,
          named \o <<NL>> \o desc \o <<NL>> \o plain \o <<NL>> \o desc,
          named \o <<NL>> \o desc \o <<NL>> \o <<"a">> \o <<NL>> \o plain,
          named \o <<NL>> \o second }

EntrySeqs == UNION {[1..n -> Entries] : n \in 1..MaxEntries}

RenderEntry(e) ==
    e.ordinal \o <<e.dot>> \o e.name \o <<NL>> \o e.indent \o <<e.mark>> \o e.description

RECURSIVE RenderEntries(_)
RenderEntries(es) ==
    IF Len(es) = 1 THEN RenderEntry(es[1])
    ELSE RenderEntry(es[1]) \o <<NL>> \o RenderEntries(Tail(es))

\* indicators, mood keywords and filler the classifier inputs are built from
ClassifierChunks ==
    { <<"u3068">>, <<"u3084">>, <<"u3001">>, <<"u306E">>,
      <<"u304C", "u6B8B", "u3063", "u3066">>,
      <<"u304C", "u3042", "u308B">>,
      <<"u3092", "u4F7F", "u3063", "u3066">> }
      \cup {MoodKeywords[1], MoodKeywords[5], MoodKeywords[17], MoodKeywords[18], MoodKeywords[26]}
      \cup {<<"x">>, <<"A">>, <<"u304C">>}

ClassifierInputs == ConcatsUpTo(ClassifierChunks, MaxChunks)

ServiceInputs == ConcatsUpTo(ClassifierChunks, MaxServiceChunks)

CompletionTexts == LinesUpTo(LineShapes, MaxCompletionLines)

Invocations ==
    {Invocation("text", t, "") : t \in CompletionTexts}
      \cup {Invocation("client_error", <<>>, c) : c \in ErrorCodes}
      \cup {Invocation("no_text_field", <<>>, ""), Invocation("null_text", <<>>, ""),
            Invocation("exception", <<>>, "")}

\* bodies the Claude SDK Lambda can answer a 200 with: a success envelope, a
\* failure envelope, and an object without the envelope's keys
SdkBodies ==
    { [success |-> TRUE,
       recipes |-> Some(<<[number |-> <<"1">>, name |-> <<"a">>, description |-> <<"b">>]>>),
       error |-> None, input_type |-> "mood"],
      [success |-> FALSE, recipes |-> None, error |-> Some("Failed to generate recipe"),
       input_type |-> "mood"],
      [message |-> "Internal Server Error"] }

SdkCalls ==
    {SdkCall("sdk_json", b) : b \in SdkBodies}
      \cup {SdkCall(k, None) : k \in {"sdk_non200", "sdk_timeout", "sdk_request_exception",
                                       "sdk_exception"}}

----------------------------------------------------------------------------
(* The pure functions as operations on the state *)

ParserIdle ==
    /\ response_text = <<>>
    /\ entries = <<>>
    /\ parser = "idle"
    /\ recipes = <<>>

ClassifyIdle ==
    /\ user_input = <<>>
    /\ verdict = "idle"

ServiceIdle ==
    /\ svcpc = "idle"
    /\ prompt = None
    /\ completion = None
    /\ completion_result = None
    /\ envelope = None

RenderIdle ==
    /\ channel = "none"
    /\ request = <<>>
    /\ backend = None
    /\ shown = None

InvokeIdle ==
    /\ invoker = "none"
    /\ ipc = "idle"
    /\ model_index = 0
    /\ invocations = <<>>
    /\ invoke_result = None

EntryIdle ==
    /\ _line_handler = None
    /\ _slack_handler = None
    /\ lambda_event = None
    /\ lambda_env = None
    /\ lambda_response = None
    /\ webhook_args = None

LineIdle ==
    /\ line_impl = "none"
    /\ line_event = None
    /\ lpc = "idle"
    /\ replies = <<>>

EventIdle ==
    /\ ev_impl = "none"
    /\ ev_body = None
    /\ ev_signed = FALSE
    /\ ev_response = None
    /\ ev_generated = <<>>
    /\ ev_dispatched = <<>>

StoreIdle ==
    /\ table0 = <<>>
    /\ table = <<>>
    /\ calls = <<>>
    /\ spc = <<>>
    /\ current = <<>>
    /\ returned = <<>>
    /\ oplog = <<>>

EdgeIdle == RenderIdle /\ InvokeIdle /\ EntryIdle /\ LineIdle /\ EventIdle /\ StoreIdle

\* recipes = parse_recipe_text(recipe_text)
ParseRecipeText ==
    /\ parser = "ready"
    /\ parser' = "parse_recipe_text"
    /\ recipes' = parse_recipe_text(response_text)
    /\ UNCHANGED <<response_text, entries, slackVars, classifyVars, serviceVars, edgeVars>>

\* recipes = self._parse_recipes(response)
ParseRecipes ==
    /\ parser = "ready"
    /\ parser' = "_parse_recipes"
    /\ recipes' = _parse_recipes(response_text)
    /\ UNCHANGED <<response_text, entries, slackVars, classifyVars, serviceVars, edgeVars>>

\* recipes = self._parse_recipe_response(result['content'])
ParseRecipeResponse ==
    /\ parser = "ready"
    /\ parser' = "_parse_recipe_response"
    /\ recipes' = _parse_recipe_response(response_text)
    /\ UNCHANGED <<response_text, entries, slackVars, classifyVars, serviceVars, edgeVars>>

\* is_mood_based = self._is_mood_based_input(user_input)
IsMoodBasedInput ==
    /\ verdict = "ready"
    /\ verdict' = IF _is_mood_based_input(user_input) THEN "mood" ELSE "ingredient"
    /\ UNCHANGED <<user_input, slackVars, parserVars, serviceVars, edgeVars>>

\* one call of generate_recipe_suggestions, the gateway doing any of the
\* things an invocation can do
GenerateRecipeSuggestions ==
    /\ svcpc = "ready"
    /\ \E inv \in Invocations :
         /\ completion' = Some(inv)
         /\ completion_result' = Some(generate_completion(inv))
         /\ prompt' = Some(CreatePrompt(user_input, _is_mood_based_input(user_input)))
         /\ envelope' = Some(generate_recipe_suggestions(user_input, inv))
    /\ svcpc' = "returned"
    /\ UNCHANGED <<user_input, verdict, slackVars, parserVars, edgeVars>>

\* one call of app/recipe_service.py's generate_recipe, on either backend
GenerateRecipe ==
    /\ svcpc = "ready"
    /\ \/ \E call \in SdkCalls :
            \* self.use_claude_sdk
            /\ completion' = Some(call)
            /\ prompt' = None
            /\ envelope' = Some(ClaudeSDKClient_generate_recipe(call))
       \/ \E inv \in Invocations :
            /\ completion' = Some(inv)
            /\ prompt' = Some(_create_prompt(user_input, App_is_mood_based_input(user_input)))
            /\ envelope' = Some(generate_recipe(user_input, inv))
    /\ completion_result' = None
    /\ svcpc' = "legacy_returned"
    /\ UNCHANGED <<user_input, verdict, slackVars, parserVars, edgeVars>>

----------------------------------------------------------------------------
(* Slack slash command: inputs *)

Impls == {"thread", "lambda"}

\* text.strip() empty; first word add / list / clear; a "use stored" word; anything else
Cmds == {"blank", "add", "list", "clear", "stored", "recipe"}

\* status outcomes of requests.post on the response_url
PostOutcomes == {"200", "non200", "raise"}

\* what generate_recipe hands back to phase 2
\*   ok        : success with a non-empty recipes list
\*   ok_empty  : success with an empty recipes list (the parser found nothing)
\*   failure   : success == False with an error message
\*   malformed : (Claude SDK backend) a JSON body without the expected keys
GenerateOutcomes == {"ok", "ok_empty", "failure", "malformed"}

Post(kind, outcome) == [kind |-> kind, outcome |-> outcome]

----------------------------------------------------------------------------
(* Phase 1, deployment "lambda": slack_instant_responder.lambda_handler *)

\* lambda_client.invoke(InvocationType='Event'): "ok" starts the async processor
InvokeOutcomes == {"ok", "raise"}

\* The handler up to the point where it has (or has not) invoked the async
\* processor; storage commands and the help text are answered on the spot.
InstantResponder_Handle ==
    /\ impl = "lambda"
    /\ p1pc = "start"
    /\ \E exc \in BOOLEAN, inv \in InvokeOutcomes, storageOk \in BOOLEAN :
         IF exc
           THEN \* outer except: ephemeral error message
                /\ response' = "error"
                /\ p1pc' = "returned"
                /\ p2pc' = p2pc
         ELSE IF cmd = "blank"
           THEN /\ response' = "help"
                /\ p1pc' = "returned"
                /\ p2pc' = p2pc
         ELSE IF cmd \in {"add", "list", "clear"}
           THEN /\ response' = IF storageOk THEN "ingredients" ELSE "ingredients_failed"
                /\ p1pc' = "returned"
                /\ p2pc' = p2pc
         ELSE IF cmd = "stored"
           THEN \* _handle_use_stored_ingredients
                IF ~stored
                  THEN /\ response' = "no_stored"
                       /\ p1pc' = "returned"
                       /\ p2pc' = p2pc
                ELSE IF response_url # "" /\ inv = "raise"
                  THEN /\ response' = "dispatch_failed"
                       /\ p1pc' = "returned"
                       /\ p2pc' = p2pc
                ELSE   /\ response' = response
                       /\ p1pc' = "stored_ack"
                       /\ p2pc' = IF response_url # "" THEN "start" ELSE p2pc
         ELSE   \* regular recipe request
                /\ response' = response
                /\ p1pc' = "ack"
                /\ p2pc' = IF response_url # "" /\ inv = "ok" THEN "start" ELSE p2pc
    /\ UNCHANGED <<impl, cmd, response_url, stored, result, payload, posts,
                   gatewayCalls, p1GatewayCalls>>
    /\ UNCHANGED <<parserVars, classifyVars, serviceVars, edgeVars>>

\* the return statement after the invocation: the 'generating...' message
InstantResponder_Return ==
    /\ impl = "lambda"
    /\ p1pc \in {"ack", "stored_ack"}
    /\ response' = p1pc
    /\ p1pc' = "returned"
    /\ UNCHANGED <<impl, cmd, response_url, stored, p2pc, result, payload, posts,
                   gatewayCalls, p1GatewayCalls>>
    /\ UNCHANGED <<parserVars, classifyVars, serviceVars, edgeVars>>

----------------------------------------------------------------------------
(* Phase 1, deployment "thread": SlackBotHandler.handle_slash_command *)

HandleSlashCommand_Start ==
    /\ impl = "thread"
    /\ p1pc = "start"
    /\ \E exc \in BOOLEAN, storageOk \in BOOLEAN :
         IF exc
           THEN /\ response' = "error"
                /\ p1pc' = "returned"
                /\ p2pc' = p2pc
         ELSE IF cmd = "blank"
           THEN /\ response' = "help"
                /\ p1pc' = "returned"
                /\ p2pc' = p2pc
         ELSE IF cmd \in {"add", "list", "clear"}
           THEN /\ response' = IF storageOk THEN "ingredients" ELSE "ingredients_failed"
                /\ p1pc' = "returned"
                /\ p2pc' = p2pc
         ELSE IF response_url # ""
           THEN \* thread.start()
                /\ response' = response
                /\ p1pc' = "join"
                /\ p2pc' = "start"
         ELSE   /\ response' = "ack"
                /\ p1pc' = "returned"
                /\ p2pc' = p2pc
    /\ UNCHANGED <<impl, cmd, response_url, stored, result, payload, posts,
                   gatewayCalls, p1GatewayCalls>>
    /\ UNCHANGED <<parserVars, classifyVars, serviceVars, edgeVars>>

\* thread.join() followed by `return immediate_ack`
HandleSlashCommand_Join ==
    /\ impl = "thread"
    /\ p1pc = "join"
    /\ p2pc = "done"
    /\ p1GatewayCalls' = p1GatewayCalls + gatewayCalls
    /\ response' = "ack"
    /\ p1pc' = "returned"
    /\ UNCHANGED <<impl, cmd, response_url, stored, p2pc, result, payload, posts,
                   gatewayCalls>>
    /\ UNCHANGED <<parserVars, classifyVars, serviceVars, edgeVars>>

----------------------------------------------------------------------------
(* Phase 2, deployment "lambda": slack_async_processor.lambda_handler *)

\* text / response_url checks (both non-empty whenever phase 1 dispatched),
\* then RecipeService(); when the constructor raises, one error POST is tried
\* (its own failure is swallowed) and the handler returns 500.
AsyncProcessor_Init ==
    /\ impl = "lambda"
    /\ p2pc = "start"
    /\ \E initOk \in BOOLEAN, o \in PostOutcomes :
         IF initOk
           THEN /\ p2pc' = "generate"
                /\ posts' = posts
           ELSE /\ p2pc' = "done"
                /\ posts' = Append(posts, Post("init_error", o))
    /\ UNCHANGED <<impl, cmd, response_url, stored, p1pc, response, result,
                   payload, gatewayCalls, p1GatewayCalls>>
    /\ UNCHANGED <<parserVars, classifyVars, serviceVars, edgeVars>>

\* recipe_service.generate_recipe(text, max_tokens=400): one gateway invocation
AsyncProcessor_Generate ==
    /\ impl = "lambda"
    /\ p2pc = "generate"
    /\ \E g \in GenerateOutcomes :
         /\ result' = g
         /\ p2pc' = "format"
    /\ gatewayCalls' = gatewayCalls + 1
    /\ UNCHANGED <<impl, cmd, response_url, stored, p1pc, response, payload,
                   posts, p1GatewayCalls>>
    /\ UNCHANGED <<parserVars, classifyVars, serviceVars, edgeVars>>

\* `if result['success'] and result['recipes']` and the Block Kit formatting
AsyncProcessor_Format ==
    /\ impl = "lambda"
    /\ p2pc = "format"
    /\ IF result = "malformed"
         THEN /\ p2pc' = "except"
              /\ payload' = payload
         ELSE /\ p2pc' = "post"
              /\ payload' = IF result = "ok" THEN "recipes" ELSE "generation_error"
    /\ UNCHANGED <<impl, cmd, response_url, stored, p1pc, response, result,
                   posts, gatewayCalls, p1GatewayCalls>>
    /\ UNCHANGED <<parserVars, classifyVars, serviceVars, edgeVars>>

\* requests.post(response_url, json=success_payload, timeout=15)
AsyncProcessor_Post ==
    /\ impl = "lambda"
    /\ p2pc = "post"
    /\ \E o \in PostOutcomes :
         /\ posts' = Append(posts, Post(payload, o))
         /\ p2pc' = IF o = "raise" THEN "except" ELSE "done"
    /\ UNCHANGED <<impl, cmd, response_url, stored, p1pc, response, result,
                   payload, gatewayCalls, p1GatewayCalls>>
    /\ UNCHANGED <<parserVars, classifyVars, serviceVars, edgeVars>>

\* AsyncProcessor_Except that only logs
AsyncProcessor_Except_Silent ==
    /\ impl = "lambda"
    /\ p2pc = "except"
    /\ p2pc' = "done"
    /\ UNCHANGED <<impl, cmd, response_url, stored, p1pc, response, result,
                   payload, posts, gatewayCalls, p1GatewayCalls>>
    /\ UNCHANGED <<parserVars, classifyVars, serviceVars, edgeVars>>

\* the outer `except Exception`: an error POST when the event has a response_url
AsyncProcessor_Except ==
    /\ impl = "lambda"
    /\ p2pc = "except"
    /\ \E o \in PostOutcomes :
         posts' = IF response_url # "" THEN Append(posts, Post("error", o)) ELSE posts
    /\ p2pc' = "done"
    /\ UNCHANGED <<impl, cmd, response_url, stored, p1pc, response, result,
                   payload, gatewayCalls, p1GatewayCalls>>
    /\ UNCHANGED <<parserVars, classifyVars, serviceVars, edgeVars>>

----------------------------------------------------------------------------
(* Phase 2, deployment "thread": SlackBotHandler._process_recipe_async *)

\* the "use stored" branch: stored ingredients replace the text, or a
\* 'nothing stored' message is POSTed and the thread returns
ProcessRecipeAsync_Start ==
    /\ impl = "thread"
    /\ p2pc = "start"
    /\ \E exc \in BOOLEAN, o \in PostOutcomes :
         IF cmd # "stored"
           THEN /\ p2pc' = "generate"
                /\ posts' = posts
         ELSE IF exc
           THEN /\ p2pc' = "except"
                /\ posts' = posts
         ELSE IF stored
           THEN /\ p2pc' = "generate"
                /\ posts' = posts
         ELSE   /\ posts' = Append(posts, Post("no_stored", o))
                /\ p2pc' = IF o = "raise" THEN "except" ELSE "done"
    /\ UNCHANGED <<impl, cmd, response_url, stored, p1pc, response, result,
                   payload, gatewayCalls, p1GatewayCalls>>
    /\ UNCHANGED <<parserVars, classifyVars, serviceVars, edgeVars>>

\* self.recipe_service.generate_recipe(text, max_tokens=400)
ProcessRecipeAsync_Generate ==
    /\ impl = "thread"
    /\ p2pc = "generate"
    /\ \E g \in GenerateOutcomes :
         /\ result' = g
         /\ p2pc' = "format"
    /\ gatewayCalls' = gatewayCalls + 1
    /\ UNCHANGED <<impl, cmd, response_url, stored, p1pc, response, payload,
                   posts, p1GatewayCalls>>
    /\ UNCHANGED <<parserVars, classifyVars, serviceVars, edgeVars>>

ProcessRecipeAsync_Format ==
    /\ impl = "thread"
    /\ p2pc = "format"
    /\ IF result = "malformed"
         THEN /\ p2pc' = "except"
              /\ payload' = payload
         ELSE /\ p2pc' = "post"
              /\ payload' = IF result = "ok" THEN "recipes" ELSE "generation_error"
    /\ UNCHANGED <<impl, cmd, response_url, stored, p1pc, response, result,
                   posts, gatewayCalls, p1GatewayCalls>>
    /\ UNCHANGED <<parserVars, classifyVars, serviceVars, edgeVars>>

\* requests.post(response_url, json=follow_up_payload, timeout=10)
ProcessRecipeAsync_Post ==
    /\ impl = "thread"
    /\ p2pc = "post"
    /\ \E o \in PostOutcomes :
         /\ posts' = Append(posts, Post(payload, o))
         /\ p2pc' = IF o = "raise" THEN "except" ELSE "done"
    /\ UNCHANGED <<impl, cmd, response_url, stored, p1pc, response, result,
                   payload, gatewayCalls, p1GatewayCalls>>
    /\ UNCHANGED <<parserVars, classifyVars, serviceVars, edgeVars>>

\* `except Exception`: requests.post(response_url, json=error_payload, timeout=5)
ProcessRecipeAsync_Except ==
    /\ impl = "thread"
    /\ p2pc = "except"
    /\ \E o \in PostOutcomes :
         posts' = Append(posts, Post("error", o))
    /\ p2pc' = "done"
    /\ UNCHANGED <<impl, cmd, response_url, stored, p1pc, response, result,
                   payload, gatewayCalls, p1GatewayCalls>>
    /\ UNCHANGED <<parserVars, classifyVars, serviceVars, edgeVars>>

----------------------------------------------------------------------------
(* The Slack slash-command workflow *)

SlackIdle ==
    /\ impl = "none"
    /\ cmd = "none"
    /\ response_url = ""
    /\ stored = FALSE
    /\ p1pc = "idle"
    /\ response = "none"
    /\ p2pc = "idle"
    /\ result = "none"
    /\ payload = "none"
    /\ posts = <<>>
    /\ gatewayCalls = 0
    /\ p1GatewayCalls = 0

SlackInit ==
    /\ impl \in Impls
    /\ cmd \in Cmds
    /\ response_url \in {"", "url"}
    /\ stored \in BOOLEAN
    /\ p1pc = "start"
    /\ response = "none"
    /\ p2pc = "idle"
    /\ result = "none"
    /\ payload = "none"
    /\ posts = <<>>
    /\ gatewayCalls = 0
    /\ p1GatewayCalls = 0

Init == SlackInit /\ ParserIdle /\ ClassifyIdle /\ ServiceIdle /\ EdgeIdle

Phase2 ==
    \/ AsyncProcessor_Init
    \/ AsyncProcessor_Generate
    \/ AsyncProcessor_Format
    \/ AsyncProcessor_Post
    \/ AsyncProcessor_Except
    \/ ProcessRecipeAsync_Start
    \/ ProcessRecipeAsync_Generate
    \/ ProcessRecipeAsync_Format
    \/ ProcessRecipeAsync_Post
    \/ ProcessRecipeAsync_Except

Next ==
    \/ InstantResponder_Handle
    \/ InstantResponder_Return
    \/ HandleSlashCommand_Start
    \/ HandleSlashCommand_Join
    \/ Phase2

Spec == Init /\ [][Next]_vars

\* Both the thread and the Lambda runtime run phase 2 to its return.
FairSpec == Spec /\ WF_vars(Phase2)

----------------------------------------------------------------------------
(* The parsers applied to texts *)

ParserInit ==
    /\ parser = "ready"
    /\ recipes = <<>>
    /\ \/ /\ entries \in EntrySeqs
          /\ response_text = RenderEntries(entries)
       \/ /\ entries = <<>>
          /\ response_text \in FreeTexts \cup BracketTexts
    /\ SlackIdle /\ ClassifyIdle /\ ServiceIdle /\ EdgeIdle

ParserNext ==
    \/ ParseRecipeText
    \/ ParseRecipeResponse
    \/ ParseRecipes

SpecParser == ParserInit /\ [][ParserNext]_vars

----------------------------------------------------------------------------
(* The classifier applied to inputs *)

ClassifyInit ==
    /\ user_input \in ClassifierInputs
    /\ verdict = "ready"
    /\ SlackIdle /\ ParserIdle /\ ServiceIdle /\ EdgeIdle

ClassifyNext == IsMoodBasedInput

SpecClassify == ClassifyInit /\ [][ClassifyNext]_vars

----------------------------------------------------------------------------
(* The orchestrator *)

ServiceInit ==
    /\ user_input \in ServiceInputs
    /\ verdict = "idle"
    /\ svcpc = "ready"
    /\ prompt = None
    /\ completion = None
    /\ completion_result = None
    /\ envelope = None
    /\ SlackIdle /\ ParserIdle /\ EdgeIdle

ServiceNext ==
    \/ GenerateRecipeSuggestions
    \/ GenerateRecipe

SpecService == ServiceInit /\ [][ServiceNext]_vars

----------------------------------------------------------------------------
(* SpecRender: a request taken through the service and the rendering of   *)
(* its delivery path                                                       *)

PipelineIdle == SlackIdle /\ ParserIdle /\ ClassifyIdle /\ ServiceIdle

\* line_bot.py, handlers/line_handler.py, handlers/slack_handler.py (slash
\* command answered in the request), slack_bot.py (deferred callback) and
\* slack_async_processor.py (deferred callback)
Channels == {"line_bot", "line_handler", "slack_handler", "slack_bot", "async_processor"}

RenderInit ==
    /\ channel \in Channels
    /\ request \in ServiceInputs \ {<<>>}
    /\ backend = None
    /\ shown = None
    /\ PipelineIdle /\ InvokeIdle /\ EntryIdle /\ LineIdle /\ EventIdle /\ StoreIdle

\* line_bot.py lines 79-97
Render_LineBot ==
    /\ channel = "line_bot"
    /\ shown = None
    /\ \/ \E inv \in Invocations :
            /\ backend' = Some(inv)
            /\ shown' = Some(LineReply(generate_recipe(request, inv)))
       \/ \E call \in SdkCalls :
            /\ backend' = Some(call)
            /\ shown' = Some(LineReply(ClaudeSDKClient_generate_recipe(call)))
    /\ UNCHANGED <<channel, request, renderRest>>

\* handlers/line_handler.py lines 89-116
Render_LineHandler ==
    /\ channel = "line_handler"
    /\ shown = None
    /\ \E inv \in Invocations :
         /\ backend' = Some(inv)
         /\ shown' = Some(LineReply(generate_recipe_suggestions(request, inv)))
    /\ UNCHANGED <<channel, request, renderRest>>

\* handlers/slack_handler.py lines 71-86
Render_SlackHandler ==
    /\ channel = "slack_handler"
    /\ shown = None
    /\ \E inv \in Invocations :
         /\ backend' = Some(inv)
         /\ shown' = Some(SlackCommandResponse(generate_recipe_suggestions(request, inv)))
    /\ UNCHANGED <<channel, request, renderRest>>

\* slack_bot.py lines 135-159
Render_SlackBotDeferred ==
    /\ channel = "slack_bot"
    /\ shown = None
    /\ \/ \E inv \in Invocations :
            /\ backend' = Some(inv)
            /\ shown' = Some(DeferredPayload(generate_recipe(request, inv)))
       \/ \E call \in SdkCalls :
            /\ backend' = Some(call)
            /\ shown' = Some(DeferredPayload(ClaudeSDKClient_generate_recipe(call)))
    /\ UNCHANGED <<channel, request, renderRest>>

\* slack_async_processor.py lines 60-109
Render_AsyncProcessor ==
    /\ channel = "async_processor"
    /\ shown = None
    /\ \/ \E inv \in Invocations :
            /\ backend' = Some(inv)
            /\ shown' = Some(DeferredPayload(generate_recipe(request, inv)))
       \/ \E call \in SdkCalls :
            /\ backend' = Some(call)
            /\ shown' = Some(DeferredPayload(ClaudeSDKClient_generate_recipe(call)))
    /\ UNCHANGED <<channel, request, renderRest>>

RenderNext ==
    \/ Render_LineBot
    \/ Render_LineHandler
    \/ Render_SlackHandler
    \/ Render_SlackBotDeferred
    \/ Render_AsyncProcessor

SpecRender == RenderInit /\ [][RenderNext]_vars

----------------------------------------------------------------------------
(* SpecInvoke: the invocations of the completion service one request makes *)
(*   claude_client           : ClaudeClient.generate_completion            *)
(*   recipe_processor_simple : generate_recipe_with_bedrock, the function   *)
(*                             slack_responder.py dispatches to            *)

\* model_ids of generate_recipe_with_bedrock
ModelIds ==
    <<"anthropic.claude-3-5-sonnet-20241022-v2:0",
      "anthropic.claude-3-5-sonnet-20240620-v1:0",
      "anthropic.claude-3-sonnet-20240229-v1:0",
      "anthropic.claude-3-haiku-20240307-v1:0",
      "anthropic.claude-instant-v1">>

Invokers == {"claude_client", "recipe_processor_simple"}

\* what one invoke_model call does, as far as the callers tell them apart
InvokeBehaviours ==
    {Invocation("text", t, "") : t \in {<<>>, <<"1", ".", " ", "a", NL, "-", "b">>}}
      \cup {Invocation("client_error", <<>>, c) : c \in {"ThrottlingException", "AccessDeniedException"}}
      \cup {Invocation("no_text_field", <<>>, ""), Invocation("exception", <<>>, "")}

\* invoke_model itself raised
Raised(inv) == inv.kind \in {"client_error", "exception"}

InvokeInit ==
    /\ invoker \in Invokers
    /\ ipc = "start"
    /\ model_index = 1
    /\ invocations = <<>>
    /\ invoke_result = None
    /\ PipelineIdle /\ RenderIdle /\ EntryIdle /\ LineIdle /\ EventIdle /\ StoreIdle

\* ClaudeClient.generate_completion: one _invoke_model call, then a return
\* on every path
ClaudeClient_GenerateCompletion ==
    /\ invoker = "claude_client"
    /\ ipc = "start"
    /\ \E inv \in InvokeBehaviours :
         /\ invocations' = Append(invocations, inv)
         /\ invoke_result' = Some(generate_completion(inv))
    /\ ipc' = "returned"
    /\ UNCHANGED <<invoker, model_index, invokeRest>>

\* one iteration of `for model_id in model_ids`: break on success, raise
\* after the last model, else continue with the next model
Simple_TryModel ==
    /\ invoker = "recipe_processor_simple"
    /\ ipc = "start"
    /\ \E inv \in InvokeBehaviours :
         /\ invocations' = Append(invocations, inv)
         /\ IF ~Raised(inv)
              THEN /\ ipc' = "parse"
                   /\ model_index' = model_index
              ELSE IF model_index = Len(ModelIds)
                THEN /\ ipc' = "except"
                     /\ model_index' = model_index
                ELSE /\ ipc' = "start"
                     /\ model_index' = model_index + 1
    /\ UNCHANGED <<invoker, invoke_result, invokeRest>>

\* lines 138-148: response_body['content'][0]['text'] and the success dict
Simple_Parse ==
    /\ invoker = "recipe_processor_simple"
    /\ ipc = "parse"
    /\ LET inv == invocations[Len(invocations)]
       IN  IF inv.kind = "text"
             THEN /\ invoke_result' = Some([success |-> TRUE, recipe |-> Some(inv.text),
                                            error |-> None])
                  /\ ipc' = "returned"
             ELSE /\ invoke_result' = invoke_result
                  /\ ipc' = "except"
    /\ UNCHANGED <<invoker, model_index, invocations, invokeRest>>

\* lines 150-156: {'success': False, 'recipe': None, 'error': str(e)}
Simple_Except ==
    /\ invoker = "recipe_processor_simple"
    /\ ipc = "except"
    /\ invoke_result' = Some([success |-> FALSE, recipe |-> None,
                              error |-> Some(invocations[Len(invocations)].kind)])
    /\ ipc' = "returned"
    /\ UNCHANGED <<invoker, model_index, invocations, invokeRest>>

InvokeNext ==
    \/ ClaudeClient_GenerateCompletion
    \/ Simple_TryModel
    \/ Simple_Parse
    \/ Simple_Except

SpecInvoke == InvokeInit /\ [][InvokeNext]_vars

----------------------------------------------------------------------------
(* SpecEntry: invocations of handler.lambda_handler on one Lambda instance *)

NoHeaders == [is |-> "absent", names |-> {}]
NullHeaders == [is |-> "null", names |-> {}]
HeaderMaps ==
    {[is |-> "map", names |-> {n}] :
        n \in {"X-Line-Signature", "x-line-signature", "X-Slack-Signature"}}

NoContext == [is |-> "absent", resourcePath |-> Absent]
NullContext == [is |-> "null", resourcePath |-> Absent]

EntryBodies == {Absent, Null, FormCommandText, FormCommandUser, JsonEvents, JsonType,
                JsonScalar, NotJson, B64Form, B64Json, B64Binary}

Event(path, rawPath, requestContext, headers, body) ==
    [path |-> path, rawPath |-> rawPath, requestContext |-> requestContext,
     headers |-> headers, body |-> body,
     isBase64Encoded |-> body \in {B64Form, B64Json, B64Binary}]

\* events without a routed path, told apart by headers and body
UnroutedEvents ==
    {Event(Absent, Absent, NoContext, h, b) :
        h \in {NoHeaders, NullHeaders} \cup HeaderMaps, b \in EntryBodies}

\* events that reach the path fallback of lambda_handler
FallbackEvents ==
    {Event(Absent, r, c, NoHeaders, b) :
        r \in {Absent, Null, "/slack/events"},
        c \in {NullContext, [is |-> "map", resourcePath |-> "/line/webhook"]},
        b \in {Absent, FormCommandUser, NotJson}}

\* events API Gateway routed by path
RoutedEvents ==
    {Event("/line/webhook", Absent, NoContext, h, b) :
        h \in {NoHeaders, NullHeaders} \cup HeaderMaps, b \in {Null, JsonEvents}}
      \cup {Event("/slack/events", Absent, NoContext, h, b) :
              h \in {NoHeaders, NullHeaders}, b \in EntryBodies}
      \cup {Event(Null, Absent, NoContext, NoHeaders, b) : b \in {Absent, JsonType}}

Events == UnroutedEvents \cup FallbackEvents \cup RoutedEvents

\* what the environment does in one invocation: whether a handler
\* constructor succeeds, and how the called handler method goes
Envs == [init_ok : BOOLEAN, handler : {"ok", "bad_signature", "failure", "raises"}]

EntryInit ==
    /\ _line_handler = None
    /\ _slack_handler = None
    /\ lambda_event = None
    /\ lambda_env = None
    /\ lambda_response = None
    /\ webhook_args = None
    /\ PipelineIdle /\ RenderIdle /\ InvokeIdle /\ LineIdle /\ EventIdle /\ StoreIdle

\* one invocation of lambda_handler(event, context)
LambdaHandler ==
    \E event \in Events, env \in Envs :
       LET r == lambda_handler(event, _line_handler, _slack_handler, env)
       IN  /\ lambda_event' = Some(event)
           /\ lambda_env' = Some(env)
           /\ lambda_response' = Some([escaped |-> r.escaped, response |-> r.response])
           /\ webhook_args' = handle_webhook_call(event, _line_handler, env)
           /\ _line_handler' = r.line
           /\ _slack_handler' = r.slack
           /\ UNCHANGED entryRest

EntryNext == LambdaHandler

SpecEntry == EntryInit /\ [][EntryNext]_vars

----------------------------------------------------------------------------
(* SpecLine: one inbound LINE text message and the replies it causes *)

LineImpls == {"line_bot", "line_handler"}

ReplyTokens == {"token1", "token2"}

LineMessages ==
    {<<"a", "d", "d", " ">>, <<"a", "d", "d", " ", "u5375">>, <<"l", "i", "s", "t">>,
     <<"c", "l", "e", "a", "r">>, <<"s", "t", "o", "r", "e", "d">>, <<"u5375">>,
     <<"u7CFB">>}

LineBackends ==
    {Invocation("text", <<"1", ".", " ", "a", NL, "-", "b">>, ""),
     Invocation("text", <<>>, ""),
     Invocation("client_error", <<>>, "ThrottlingException"),
     Invocation("exception", <<>>, "")}

\* what the collaborators do while the try block runs
LineEnvs ==
    [inv : LineBackends, storage_ok : BOOLEAN, stored : {<<>>, <<"u5375">>},
     reply_raises : BOOLEAN]

LineInit ==
    /\ line_impl \in LineImpls
    /\ line_event \in {Some([reply_token |-> t, message |-> m]) :
                          t \in ReplyTokens, m \in LineMessages}
    /\ lpc = "try"
    /\ replies = <<>>
    /\ PipelineIdle /\ RenderIdle /\ InvokeIdle /\ EntryIdle /\ EventIdle /\ StoreIdle

\* the try block: every path through it ends in one reply_message call
Line_TryBlock ==
    /\ lpc = "try"
    /\ \E env \in LineEnvs :
         LET ev == line_event[1]
             message == IF line_impl = "line_bot"
                          THEN LineBot_Reply(ev.message, env)
                          ELSE LineHandler_Reply(ev.message, env)
         IN  /\ replies' = Append(replies, ReplyCall(ev.reply_token, message, env.reply_raises))
             /\ lpc' = IF env.reply_raises THEN "except" ELSE "done"
    /\ UNCHANGED <<line_impl, line_event, lineRest>>

\* `except Exception`: reply_message with the general apology, its own
\* failure swallowed
Line_ExceptBlock ==
    /\ lpc = "except"
    /\ \E raised \in BOOLEAN :
         replies' = Append(replies,
                           ReplyCall(line_event[1].reply_token,
                                     Shown("error", <<_create_error_message(Some("general"))>>),
                                     raised))
    /\ lpc' = "done"
    /\ UNCHANGED <<line_impl, line_event, lineRest>>

LineNext == Line_TryBlock \/ Line_ExceptBlock

SpecLine == LineInit /\ [][LineNext]_vars

----------------------------------------------------------------------------
(* SpecSlackEvent: one Slack Events API request and what its handler does *)

EventImpls == {"slack_bot", "slack_handler", "slack_responder"}

EventTexts == {Absent, "", " ", "curry", "<@U1> curry", "<@U1>"}

\* events as Slack sends them: only message events carry channel_type
SlackEvents ==
    {[type |-> "app_mention", channel_type |-> Absent, bot_id |-> b, text |-> t] :
        b \in {Absent, "B01"}, t \in EventTexts}
      \cup {[type |-> "message", channel_type |-> c, bot_id |-> b, text |-> t] :
              c \in {"im", "channel"}, b \in {Absent, "B01"}, t \in EventTexts}
      \cup {[type |-> "reaction_added", channel_type |-> Absent, bot_id |-> Absent,
             text |-> Absent]}

EventBodies ==
    {[json |-> FALSE, type |-> Absent, challenge |-> None, event |-> None]}
      \cup {[json |-> TRUE, type |-> "url_verification", challenge |-> c, event |-> None] :
              c \in {None, Some("challenge-1"), Some("challenge-2")}}
      \cup {[json |-> TRUE, type |-> "event_callback", challenge |-> None, event |-> e] :
              e \in {None} \cup {Some(x) : x \in SlackEvents}}

EventInit ==
    /\ ev_impl \in EventImpls
    /\ ev_body \in {Some(b) : b \in EventBodies}
    /\ ev_signed \in BOOLEAN
    /\ ev_response = None
    /\ ev_generated = <<>>
    /\ ev_dispatched = <<>>
    /\ PipelineIdle /\ RenderIdle /\ InvokeIdle /\ EntryIdle /\ LineIdle /\ StoreIdle

Finish(r) ==
    /\ ev_response' = Some(r.response)
    /\ ev_generated' = r.generated
    /\ ev_dispatched' = r.dispatched
    /\ UNCHANGED <<ev_impl, ev_body, ev_signed, eventRest>>

SlackBot_HandleEvent ==
    /\ ev_impl = "slack_bot"
    /\ ev_response = None
    /\ Finish(SlackBot_handle_event(ev_body[1], ev_signed))

SlackHandler_HandleEvent ==
    /\ ev_impl = "slack_handler"
    /\ ev_response = None
    /\ Finish(SlackHandler_handle_event(ev_body[1], ev_signed))

Responder_HandleSlackEvent ==
    /\ ev_impl = "slack_responder"
    /\ ev_response = None
    /\ Finish(handle_slack_event(ev_body[1]))

EventNext ==
    \/ SlackBot_HandleEvent
    \/ SlackHandler_HandleEvent
    \/ Responder_HandleSlackEvent

SpecSlackEvent == EventInit /\ [][EventNext]_vars

----------------------------------------------------------------------------
(* SpecStorage: two concurrent IngredientStorage calls on the table *)

Callers == {1, 2}

Users == {"U1", "U2"}

NewLists == {<<"egg">>, <<"rice", "egg">>, <<"miso", "miso">>, <<"rice">>}

StoredLists == {<<>>, <<"egg">>, <<"egg", "tofu">>}

\* add_ingredients(user_id, new_ingredients), clear_ingredients(user_id),
\* get_ingredients(user_id)
StorageCalls ==
    [op : {"add"}, user_id : Users, new_ingredients : NewLists]
      \cup [op : {"clear", "get"}, user_id : Users, new_ingredients : {<<>>}]

StoreInit ==
    /\ table0 \in {[u \in Users |-> IF u = "U1" THEN l ELSE <<"tofu">>] : l \in StoredLists}
    /\ table = table0
    /\ calls \in [Callers -> StorageCalls]
    /\ spc = [c \in Callers |-> "get"]
    /\ current = [c \in Callers |-> <<>>]
    /\ returned = [c \in Callers |-> None]
    /\ oplog = <<>>
    /\ PipelineIdle /\ RenderIdle /\ InvokeIdle /\ EntryIdle /\ LineIdle /\ EventIdle

\* line 61: current_ingredients = self.get_ingredients(user_id)
Add_Get(c) ==
    /\ calls[c].op = "add"
    /\ spc[c] = "get"
    /\ \E get_fails \in BOOLEAN :
         /\ current' = [current EXCEPT ![c] = get_ingredients(table, calls[c].user_id, get_fails)]
         /\ oplog' = Append(oplog, [op |-> "get", caller |-> c, user_id |-> calls[c].user_id,
                                    list |-> table[calls[c].user_id], failed |-> get_fails])
    /\ spc' = [spc EXCEPT ![c] = "put"]
    /\ UNCHANGED <<table0, table, calls, returned, storeRest>>

\* lines 64-81: merge, put_item, return True; False on ClientError
Add_Put(c) ==
    /\ spc[c] = "put"
    /\ \E all_ingredients \in ListOfSet(current[c] \o calls[c].new_ingredients),
          put_fails \in BOOLEAN :
         LET r == put_item(table, calls[c].user_id, all_ingredients, current[c], put_fails)
         IN  /\ table' = r.table
             /\ returned' = [returned EXCEPT ![c] = Some(~r.raised)]
             /\ oplog' = Append(oplog, [op |-> "put", caller |-> c,
                                        user_id |-> calls[c].user_id,
                                        list |-> all_ingredients, failed |-> put_fails])
    /\ spc' = [spc EXCEPT ![c] = "done"]
    /\ UNCHANGED <<table0, calls, current, storeRest>>

\* get_ingredients called on its own (the list command)
Get(c) ==
    /\ calls[c].op = "get"
    /\ spc[c] = "get"
    /\ \E get_fails \in BOOLEAN :
         /\ returned' = [returned EXCEPT
                            ![c] = Some(get_ingredients(table, calls[c].user_id, get_fails))]
         /\ oplog' = Append(oplog, [op |-> "get", caller |-> c, user_id |-> calls[c].user_id,
                                    list |-> table[calls[c].user_id], failed |-> get_fails])
    /\ spc' = [spc EXCEPT ![c] = "done"]
    /\ UNCHANGED <<table0, table, calls, current, storeRest>>

\* clear_ingredients: delete_item, return True; False on ClientError
Clear(c) ==
    /\ calls[c].op = "clear"
    /\ spc[c] = "get"
    /\ \E delete_fails \in BOOLEAN :
         LET r == delete_item(table, calls[c].user_id, delete_fails)
         IN  /\ table' = r.table
             /\ returned' = [returned EXCEPT ![c] = Some(~r.raised)]
             /\ oplog' = Append(oplog, [op |-> "delete", caller |-> c,
                                        user_id |-> calls[c].user_id,
                                        list |-> <<>>, failed |-> delete_fails])
    /\ spc' = [spc EXCEPT ![c] = "done"]
    /\ UNCHANGED <<table0, calls, current, storeRest>>

StoreNext == \E c \in Callers : Add_Get(c) \/ Add_Put(c) \/ Get(c) \/ Clear(c)

SpecStorage == StoreInit /\ [][StoreNext]_vars

----------------------------------------------------------------------------
(* Properties *)

\* C1: whenever a slash-command recipe request has been answered with the
\* 'generating...' acknowledgment, the handler has not waited for any
\* invocation of the completion gateway before returning it.
C1_AckNeverWaitsForGateway ==
    response \in {"ack", "stored_ack"} => p1GatewayCalls = 0

\* C2: phase 2 issues at most one POST to the request's response_url,
\* whatever the outcome of generation and of delivery.
C2_AtMostOneCallbackPost == Len(posts) <= 1

\* C3: every started phase 2 eventually terminates having attempted a
\* callback POST; a POST carries the recipes only if generation produced some.
C3_Phase2AlwaysCallsBack ==
    (p2pc = "start") ~>
        (/\ p2pc = "done"
         /\ Len(posts) >= 1
         /\ \A i \in 1..Len(posts) : posts[i].kind = "recipes" => result = "ok")

\* C3 witness: phase 2 ended after the formatting of a malformed result failed
C3_Witness == p2pc = "done" /\ result = "malformed" /\ Len(posts) >= 1

\* C4: an envelope with success == True carries a non-empty recipes list, for
\* every non-empty completion text.
C4_SuccessImpliesRecipes ==
    (/\ svcpc = "returned"
     /\ envelope[1].success
     /\ completion[1].text # <<>>)
        => (envelope[1].recipes # None /\ envelope[1].recipes[1] # <<>>)

\* C5: for every non-empty text parse_recipe_text returns at least one Recipe.
C5_ParseNonEmpty ==
    (parser = "parse_recipe_text" /\ response_text # <<>>) => Len(recipes) >= 1

\* C5 witness: a non-empty text on which both the pattern and the line scan
\* found nothing
C5_Witness ==
    /\ parser = "parse_recipe_text"
    /\ response_text # <<>>
    /\ Tier1(response_text) = <<>>
    /\ Tier2(response_text) = <<>>
    /\ Len(recipes) = 1

\* the seven ingredient indicators: と や 、 の が残って がある を使って
ClaimIndicators ==
    { <<"u3068">>, <<"u3084">>, <<"u3001">>, <<"u306E">>,
      <<"u304C", "u6B8B", "u3063", "u3066">>,
      <<"u304C", "u3042", "u308B">>,
      <<"u3092", "u4F7F", "u3063", "u3066">> }

IndicatorsPresent(t) == {w \in ClaimIndicators : Contains(t, w)}

\* C6: an input in which at least two distinct ingredient indicators occur
\* is classified ingredient, with or without a mood keyword.
C6_TwoIndicatorsMeanIngredient ==
    (verdict \in {"mood", "ingredient"} /\ Cardinality(IndicatorsPresent(user_input)) >= 2)
        => verdict = "ingredient"

\* C6 witness: two indicators and a mood keyword, classified ingredient
C6_Witness ==
    /\ verdict = "ingredient"
    /\ Cardinality(IndicatorsPresent(user_input)) >= 2
    /\ HasMoodKeyword(Lower(user_input))

\* C7: with fewer than two indicators present the verdict is mood exactly
\* when a mood keyword is a substring of the lower-cased input; the empty
\* input is classified ingredient.
C7_KeywordDecidesBelowThreshold ==
    /\ (verdict \in {"mood", "ingredient"} /\ Cardinality(IndicatorsPresent(user_input)) < 2)
          => ((verdict = "mood") <=> HasMoodKeyword(Lower(user_input)))
    /\ (verdict # "ready" /\ user_input = <<>>) => verdict = "ingredient"

\* C7 witness: one indicator and a mood keyword, classified mood
C7_Witness ==
    /\ verdict = "mood"
    /\ Cardinality(IndicatorsPresent(user_input)) = 1

ExpectedNames == [i \in 1..Len(entries) |->
                    [name |-> Strip(entries[i].name),
                     description |-> Strip(entries[i].description)]]

ExpectedTriples == [i \in 1..Len(entries) |->
                      [number |-> entries[i].ordinal,
                       name |-> Strip(entries[i].name),
                       description |-> Strip(entries[i].description)]]

C9_SyntheticEntry ==
    (/\ parser = "parse_recipe_text"
     /\ Tier1(response_text) = <<>>
     /\ Tier2(response_text) = <<>>)
        => /\ Len(recipes) = 1
           /\ recipes[1].name = PlaceholderName
           /\ recipes[1].description =
                IF Len(response_text) <= 100
                  THEN response_text
                  ELSE SubSeq(response_text, 1, 100) \o <<".", ".", ".">>

\* C9 witness: a text of more than 100 characters cut to 100 plus the ellipsis
C9_Witness ==
    /\ parser = "parse_recipe_text"
    /\ Len(response_text) > 100
    /\ Len(recipes) = 1
    /\ Len(recipes[1].description) = 103

GatewayFailed ==
    completion[1].kind \in {"client_error", "no_text_field", "null_text", "exception",
                            "sdk_non200", "sdk_timeout", "sdk_request_exception",
                            "sdk_exception"}

\* C11: when the gateway fails, the envelope has success false, no recipes,
\* a non-empty error, and the input type the service's classifier gives the
\* request's text.
C11_FailureEnvelope ==
    /\ (svcpc = "returned" /\ GatewayFailed) =>
          /\ envelope[1].success = FALSE
          /\ envelope[1].recipes = None
          /\ envelope[1].error # None
          /\ envelope[1].error[1] # ""
          /\ envelope[1].input_type =
               (IF _is_mood_based_input(user_input) THEN "mood" ELSE "ingredient")
    /\ (svcpc = "legacy_returned" /\ GatewayFailed) =>
          /\ envelope[1].success = FALSE
          /\ envelope[1].recipes = None
          /\ envelope[1].error # None
          /\ envelope[1].error[1] # ""
          /\ envelope[1].input_type =
               (IF App_is_mood_based_input(user_input) THEN "mood" ELSE "ingredient")

\* the messages of the gateway's table (_handle_bedrock_error, its default included)
GatewayMessages == {_handle_bedrock_error(c) : c \in ErrorCodes}
                     \cup {App_handle_bedrock_error(c) : c \in ErrorCodes}

\* the messages of the channels' tables, their defaults included
ChannelMessages ==
    {"JA_GENERAL_APOLOGY", "JA_HIGH_DEMAND", "JA_MODEL_PREPARING", "JA_GENERATION_ERROR",
     "JA_SLACK_HIGH_DEMAND", "JA_SLACK_MODEL_PREPARING", "JA_SLACK_GENERATION_ERROR",
     "JA_SLACK_RETRY"}

\* the completion service failed (Bedrock backend)
BedrockFailed ==
    backend[1].kind \in {"client_error", "no_text_field", "null_text", "exception"}

\* C12: on every delivery path a gateway failure is shown as a non-empty
\* message whose text comes from a lookup table (the channel's or the
\* gateway's), an unmapped failure getting the table's generic message.
C12_FailureShownFromTable ==
    (shown # None /\ BedrockFailed) =>
        /\ shown[1].kind = "error"
        /\ shown[1].text # <<>>
        /\ shown[1].text[Len(shown[1].text)] \in ChannelMessages \cup GatewayMessages

\* C13: generate_completion returns one of two shapes, whatever the
\* completion service does: success with a text and no error, or failure
\* with no text and a non-empty error; a body without the text field gives
\* the failure shape.
C13_CompletionShapes ==
    completion_result # None =>
        /\ DOMAIN completion_result[1] = {"success", "content", "error"}
        /\ \/ /\ completion_result[1].success = TRUE
              /\ completion_result[1].content # None
              /\ completion_result[1].error = None
           \/ /\ completion_result[1].success = FALSE
              /\ completion_result[1].content = None
              /\ completion_result[1].error # None
              /\ completion_result[1].error[1] # ""
        /\ completion[1].kind \in {"no_text_field", "null_text"} =>
              completion_result[1].success = FALSE

\* C13 witness: the body lacked the text field and the failure shape came back
C13_Witness ==
    /\ completion_result # None
    /\ completion[1].kind = "no_text_field"
    /\ completion_result[1].success = FALSE
    /\ completion_result[1].content = None

\* C14: one request makes at most one invocation of the completion service;
\* after an invocation that failed no further one is made.
C14_AtMostOneInvocation == Len(invocations) <= 1

\* C15: lambda_handler never lets an exception escape: every invocation gives
\* back a mapping with a status code, which is 400 when no channel is
\* detected, 503 when the handler of the detected channel is unavailable, and
\* 500 when channel detection, the preparation of the call or the channel
\* handler raised.
C15_HandlerAvailable ==
    \/ ResolveChannel(lambda_event[1]) = "line" /\ _line_handler # None
    \/ ResolveChannel(lambda_event[1]) = "slack" /\ _slack_handler # None

C15_NeverEscapes ==
    lambda_response # None =>
        LET ev == lambda_event[1]
            out == lambda_response[1]
            chan == ResolveChannel(ev)
        IN  /\ ~out.escaped
            /\ out.response.statusCode \in {200, 400, 500, 503}
            /\ chan = "None" => out.response.statusCode = 400
            /\ chan \in {"line", "slack"} /\ ~C15_HandlerAvailable
                  => out.response.statusCode = 503
            /\ chan = "raise" => out.response.statusCode = 500
            /\ C15_HandlerAvailable /\ lambda_env[1].handler = "raises"
                  => out.response.statusCode = 500

\* a slash command whose handler raised, answered 500
C15_Witness ==
    /\ lambda_response # None
    /\ lambda_event[1].body = FormCommandText
    /\ _slack_handler # None
    /\ lambda_env[1].handler = "raises"
    /\ lambda_response[1].response.statusCode = 500

\* C16: for one inbound LINE text message, reply_message is called with the
\* event's reply token at most once, on every path.
C16_AtMostOneReply ==
    line_event # None =>
        Cardinality({i \in 1..Len(replies) :
                        replies[i].reply_token = line_event[1].reply_token}) <= 1

\* the request got past the handler's signature check
SignatureAccepted == ev_impl = "slack_handler" => ev_signed

\* C17: a request whose body has type url_verification and a challenge is
\* answered 200 with that challenge, unchanged, and causes neither a recipe
\* generation nor a dispatch to the recipe processor.
C17_ChallengeEchoed ==
    (/\ ev_response # None
     /\ SignatureAccepted
     /\ ev_body[1].json
     /\ ev_body[1].type = "url_verification"
     /\ ev_body[1].challenge # None)
    => /\ ev_response[1].statusCode = 200
       /\ ev_response[1].body[1] \in {"challenge", "text"}
       /\ ev_response[1].body[2] = ev_body[1].challenge[1]
       /\ ev_generated = <<>>
       /\ ev_dispatched = <<>>

C17_Witness ==
    /\ ev_response # None
    /\ ev_impl = "slack_responder"
    /\ ev_body[1].json
    /\ ev_body[1].type = "url_verification"
    /\ ev_body[1].challenge = Some("challenge-2")
    /\ ev_response[1].body[2] = "challenge-2"

\* the event of the request is an app_mention or a direct message
MentionOrDirectMessage ==
    /\ ev_body[1].event # None
    /\ \/ ev_body[1].event[1].type = "app_mention"
       \/ ev_body[1].event[1].type = "message" /\ ev_body[1].event[1].channel_type = "im"

\* C18: for an event callback that is not url_verification, recipe generation
\* is invoked only for an app_mention or a direct message; every other event
\* is answered 200 and causes no gateway call.
C18_OnlyMentionsAndDirectMessages ==
    (/\ ev_response # None
     /\ SignatureAccepted
     /\ ev_body[1].json
     /\ ev_body[1].type = "event_callback")
    => /\ (ev_generated # <<>> \/ ev_dispatched # <<>>) => MentionOrDirectMessage
       /\ ~MentionOrDirectMessage => ev_response[1].statusCode = 200

\* the writes of the log that reached the table for user u, in order
PutsFor(u) ==
    SelectSeq(oplog, LAMBDA e : e.op \in {"put", "delete"} /\ e.user_id = u /\ ~e.failed)

\* both callers read before either wrote, for the same user, and the table
\* took both writes
BothReadBeforeEitherWrote ==
    /\ calls[1].op = "add" /\ calls[2].op = "add"
    /\ Len(oplog) = 4
    /\ oplog[1].op = "get" /\ oplog[2].op = "get"
    /\ calls[1].user_id = calls[2].user_id
    /\ ~oplog[3].failed /\ ~oplog[4].failed

\* C19: the store is last-write-wins without conflict detection: when two
\* add_ingredients calls for one user both read before either writes, both
\* return True and the stored list is the one the later put wrote; the list
\* of a user is only ever changed by writes for that user.
C19_LastWriteWins ==
    /\ BothReadBeforeEitherWrote =>
          /\ returned[1] = Some(TRUE) /\ returned[2] = Some(TRUE)
          /\ table[calls[1].user_id] = oplog[4].list
    /\ oplog # <<>> =>
          \A u \in Users :
             table[u] = IF PutsFor(u) = <<>> THEN table0[u]
                        ELSE PutsFor(u)[Len(PutsFor(u))].list

\* the earlier writer's new ingredient is gone from the stored list
C19_Witness ==
    /\ BothReadBeforeEitherWrote
    /\ \E x \in ToSet(calls[oplog[3].caller].new_ingredients) :
          x \notin ToSet(table[calls[1].user_id])

\* caller c ran add_ingredients to a True return and no other caller wrote
\* the user's list between c's read and c's put
AloneAndSucceeded(c) ==
    /\ calls[c].op = "add"
    /\ returned[c] = Some(TRUE)
    /\ \E i, j \in 1..Len(oplog) :
          /\ i < j
          /\ oplog[i].op = "get" /\ oplog[i].caller = c
          /\ oplog[j].op = "put" /\ oplog[j].caller = c
          /\ \A k \in (i + 1)..(j - 1) :
                ~(oplog[k].op \in {"put", "delete"} /\ oplog[k].user_id = calls[c].user_id
                    /\ ~oplog[k].failed)

\* the list c read from was stored then, and the list c wrote
StoredBefore(c) == (CHOOSE e \in ToSet(oplog) : e.op = "get" /\ e.caller = c).list
WrittenBy(c) == (CHOOSE e \in ToSet(oplog) : e.op = "put" /\ e.caller = c).list

\* C20: after a successful add_ingredients(user, new) with no interleaved
\* writer, the written list holds every element of the previously stored
\* list and every element of new, each exactly once.
C20_UnionNoDuplicates ==
    \A c \in Callers :
       AloneAndSucceeded(c) =>
          /\ ToSet(WrittenBy(c)) = ToSet(StoredBefore(c)) \cup ToSet(calls[c].new_ingredients)
          /\ Cardinality(ToSet(WrittenBy(c))) = Len(WrittenBy(c))

\* the table operation a step of SpecStorage just made
LastOp == oplog'[Len(oplog')]

C27_SuccessKeepsStored ==
    \A c \in Callers :
       AloneAndSucceeded(c) => ToSet(StoredBefore(c)) \subseteq ToSet(WrittenBy(c))

\* the places of t where a connector marker occurs
MarkerOccurrences(t) ==
    {<<i, w>> \in (1..Len(t)) \X ClaimIndicators :
        i + Len(w) - 1 <= Len(t) /\ SubSeq(t, i, i + Len(w) - 1) = w}

\* C22: the indicator count is the number of occurrences of connector
\* markers in the original text, so an input with two or more occurrences in
\* total, two of the same marker included, is classified ingredient even
\* when it holds a mood keyword.
C22_OccurrencesDecide ==
    (verdict \in {"mood", "ingredient"} /\ Cardinality(MarkerOccurrences(user_input)) >= 2)
        => verdict = "ingredient"

\* C23: the tiers are tried in order and the result is the output of the
\* first tier that yields an entry: the later tiers contribute nothing when
\* an earlier one matched, and entries of two tiers are never mixed.
C23_FirstTierWins ==
    LET t == response_text
    IN  /\ parser = "parse_recipe_text" =>
             /\ Tier1(t) # <<>> => recipes = Tier1(t)
             /\ Tier1(t) = <<>> /\ Tier2(t) # <<>> => recipes = Tier2(t)
             /\ Tier1(t) = <<>> /\ Tier2(t) = <<>> => recipes = Fallback(t)
        /\ parser = "_parse_recipes" =>
             /\ EnhancedFindAll(t, 1) # <<>> => recipes = EnhancedFindAll(t, 1)
             /\ EnhancedFindAll(t, 1) = <<>> /\ SimpleFindAll(t, 1) # <<>>
                   => recipes = SimpleFindAll(t, 1)
             /\ EnhancedFindAll(t, 1) = <<>> /\ SimpleFindAll(t, 1) = <<>>
                   => recipes = LegacyLineScan(SplitLines(t), 1, <<>>, <<>>)

\* the pattern found one entry of a text in which the line scan would find
\* two
C23_Witness ==
    /\ parser = "parse_recipe_text"
    /\ Len(Tier1(response_text)) = 1
    /\ Len(Tier2(response_text)) = 2
    /\ recipes = Tier1(response_text)

\* the lines of the parsed text, trimmed, as each line scan sees them
ScanLines ==
    LET raw == IF parser = "parse_recipe_text"
                 THEN SplitLines(Strip(response_text))
                 ELSE SplitLines(response_text)
    IN  [i \in 1..Len(raw) |-> Strip(raw[i])]

\* the ordinal dots and the description markers the running parser's line
\* scan knows
ScanDots == IF parser = "parse_recipe_text" THEN {".", "FWDOT"} ELSE {"."}
ScanMarks == IF parser = "parse_recipe_text" THEN {"-", "FWDASH", "NAKATEN"} ELSE {"-"}

\* the running parser reached its line scan
LineScanReached ==
    CASE parser = "parse_recipe_text" -> Tier1(response_text) = <<>>
      [] parser = "_parse_recipe_response" -> CoreFindAll(response_text, 1) = <<>>
      [] parser = "_parse_recipes" ->
           EnhancedFindAll(response_text, 1) = <<>> /\ SimpleFindAll(response_text, 1) = <<>>
      [] OTHER -> FALSE

NumberedLines == {i \in 1..Len(ScanLines) : StartsWithOrdinal(ScanLines[i], ScanDots)}

\* the k-th numbered line, and the line where its entry ends
NumberedAt(k) ==
    CHOOSE i \in NumberedLines : Cardinality({j \in NumberedLines : j <= i}) = k
EntryEnd(k) ==
    IF k = Cardinality(NumberedLines) THEN Len(ScanLines) + 1 ELSE NumberedAt(k + 1)

MarkedLines(k) ==
    {j \in (NumberedAt(k) + 1)..(EntryEnd(k) - 1) :
        ScanLines[j] # <<>> /\ ScanLines[j][1] \in ScanMarks}

\* the content of the last marked line of the k-th entry, empty if none
LastMarkedContent(k) ==
    IF MarkedLines(k) = {} THEN <<>>
    ELSE LET j == CHOOSE m \in MarkedLines(k) : \A n \in MarkedLines(k) : n <= m
         IN  Strip(SubSeq(ScanLines[j], 2, Len(ScanLines[j])))

\* C24: in the line scan the output has one Recipe per numbered line, in
\* text order, named by the line without its ordinal marker; its description
\* is the content of the last marked line before the next numbered line,
\* empty if there is none; marked lines before the first numbered line are
\* ignored and the last Recipe is emitted at the end of the text.
C24_LineScan ==
    (LineScanReached /\ NumberedLines # {}) =>
        /\ Len(recipes) = Cardinality(NumberedLines)
        /\ \A k \in 1..Len(recipes) :
              /\ recipes[k].name = StripOrdinal(ScanLines[NumberedAt(k)])
              /\ recipes[k].description = LastMarkedContent(k)

\* the running parser's first tier found entries
FirstTierReached ==
    CASE parser = "parse_recipe_text" -> Tier1(response_text) # <<>>
      [] parser = "_parse_recipe_response" -> CoreFindAll(response_text, 1) # <<>>
      [] OTHER -> FALSE

\* rest is blank, or blank up to a line that starts with an ordinal marker
EndsEntry(rest) ==
    \/ Strip(rest) = <<>>
    \/ \E j \in 1..Len(rest) :
          /\ rest[j] = NL
          /\ \A i \in 1..(j - 1) : rest[i] \in WhiteSpace
          /\ StartsWithOrdinal(SubSeq(rest, j + 1, Len(rest)), ScanDots)

\* d stands in the text t at a place where an entry ends after it
ReachesEntryEnd(t, d) ==
    \E i \in 1..(Len(t) + 1) :
       /\ i + Len(d) - 1 <= Len(t)
       /\ SubSeq(t, i, i + Len(d) - 1) = d
       /\ EndsEntry(SubSeq(t, i + Len(d), Len(t)))

\* C25: in tier 1 a description covers the text from its marker line up to
\* the next numbered entry or the end of the text; it is not cut at its
\* first line break.
C25_DescriptionReachesNextEntry ==
    FirstTierReached =>
        \A k \in 1..Len(recipes) : ReachesEntryEnd(response_text, recipes[k].description)

\* name is what is left of one line of the text t after an ordinal marker
RemainderOfNumberedLine(t, name) ==
    LET lines == SplitLines(t)
    IN  \E i \in 1..Len(lines) : \E j \in 2..Len(lines[i]) :
           /\ lines[i][j - 1] \in Digits
           /\ lines[i][j] \in ScanDots
           /\ Strip(SubSeq(lines[i], j + 1, Len(lines[i]))) = name

\* C26: in tier 1 a name is the remainder of its own numbered line only: it
\* holds no line break and no text of a later line, also when a numbered
\* line has no description line before the next numbered line.
C26_NameWithinItsLine ==
    FirstTierReached =>
        \A k \in 1..Len(recipes) :
           /\ \A i \in 1..Len(recipes[k].name) : recipes[k].name[i] # NL
           /\ RemainderOfNumberedLine(response_text, recipes[k].name)

\* C30: in parse_recipe_text every line of the input that begins with an
\* ordinal marker yields a Recipe: no numbered entry is dropped, also when
\* it has no description line in a text where other entries have one.
C30_NoNumberedEntryDropped ==
    parser = "parse_recipe_text" => Len(recipes) >= Cardinality(NumberedLines)

\* C28: whenever phase 1 answers a recipe request with the 'generating,
\* please wait' acknowledgment, phase 2 has been dispatched for that request;
\* with an empty response_url or a failed invocation the user is not told
\* that a recipe is being generated.
C28_AckMeansDispatched ==
    response \in {"ack", "stored_ack"} => p2pc # "idle"

\* detect_channel took the event for LINE because of its signature header
ClassifiedByLineHeader(event) ==
    /\ detect_channel(event) = "line"
    /\ ~HasLine(Field(event.path, ""))
    /\ "x-line-signature" \in {HeaderLower(k) : k \in event.headers.names}

\* C29: for every event that detect_channel classifies as LINE because a
\* LINE signature header is present, whatever the letter case of its name,
\* lambda_handler passes that header's value as the signature argument of
\* handle_webhook.
C29_SignaturePassed ==
    (lambda_event # None /\ webhook_args # None) =>
        (ClassifiedByLineHeader(lambda_event[1])
            => webhook_args[1].signature = SignatureValue)

====
